---- MODULE Spec2Model ----
(***************************************************************************)
(* Model of tracker_script.js: the Dms codec (parse, toDms, wrap90,        *)
(* wrap180, wrap360) and the LatLonSpherical point (constructor, setters). *)
(*                                                                         *)
(* Numbers.  A JavaScript number is a record [k, v]:                       *)
(*   k = "fin": the finite number v / TicksPerDeg (exact fixed point),     *)
(*   k = "nan": NaN,   k = "inf": +Infinity (v = 1) or -Infinity (v = -1). *)
(* One tick is 1/100 of an arc second, so degrees with up to 4 decimals,   *)
(* minutes with up to 3 and seconds with up to 2 are whole numbers of      *)
(* ticks.  Arithmetic is exact; binary floating-point rounding and         *)
(* overflow past Number.MAX_VALUE are not modelled.                        *)
(* A call that throws returns [k |-> "throw", e |-> <error name>].         *)
(*                                                                         *)
(* Strings are sequences of one-character strings; the glyphs of the       *)
(* source are named "deg" (U+00B0), "prime" (U+2032), "dprime" (U+2033)    *)
(* and "nnbsp" (U+202F, the default Dms.separator).                        *)
(***************************************************************************)
EXTENDS Integers, Sequences, FiniteSets, TLC

VARIABLES
    lat,     \* LatLonSpherical._lat of the point under test
    lon,     \* LatLonSpherical._lon of the point under test
    thrown,  \* what the last constructor/setter call threw ("none" if nothing)
    fn,      \* harness: the Dms function applied last ("none" before any)
    arg,     \* harness: the argument(s) the function is applied to
    ret,     \* harness: what the function returned
    back,    \* harness: Dms.parse of a formatted string (round trip)
    points,  \* the LatLonSpherical instances alive, in order of creation
    polygon  \* the caller's array of vertices (indices into points)

vars == <<lat, lon, thrown, fn, arg, ret, back, points, polygon>>

(***************************** numbers *************************************)

TicksPerDeg == 3600 * 100

Fin(v) == [k |-> "fin", v |-> v]
NaN == [k |-> "nan", v |-> 0]
Infinity == [k |-> "inf", v |-> 1]
NegInfinity == [k |-> "inf", v |-> -1]
Deg(n) == n * TicksPerDeg             \* n degrees, in ticks
IsFin(x) == x.k = "fin"
Str(s) == [k |-> "str", s |-> s]      \* a JavaScript string
Throw(e) == [k |-> "throw", e |-> e]  \* an exception leaving the call
Bool(b) == [k |-> "bool", v |-> IF b THEN 1 ELSE 0]   \* true, false

Abs(n) == IF n < 0 THEN -n ELSE n

\* JavaScript's % is a remainder with the sign of the dividend.
JsRem(a, n) == IF a >= 0 THEN a % n ELSE -((-a) % n)

\* x*m/d in exact arithmetic, without forming the product x*m.
MulDiv(x, m, d) == (x \div d) * m + ((x % d) * m) \div d

(***************************** strings *************************************)

DigitChars == <<"0", "1", "2", "3", "4", "5", "6", "7", "8", "9">>
Digits == {DigitChars[i] : i \in 1..10}
DigitVal(c) == (CHOOSE i \in 1..10 : DigitChars[i] = c) - 1

\* what String.prototype.trim removes (U+202F is a space separator)
WhiteSpace == {" ", "nnbsp"}

RECURSIVE TrimLeft(_)
TrimLeft(s) == IF s # <<>> /\ Head(s) \in WhiteSpace THEN TrimLeft(Tail(s)) ELSE s

RECURSIVE TrimRight(_)
TrimRight(s) ==
    IF s # <<>> /\ s[Len(s)] \in WhiteSpace THEN TrimRight(SubSeq(s, 1, Len(s) - 1)) ELSE s

Trim(s) == TrimRight(TrimLeft(s))

RECURSIVE Pow10(_)
Pow10(n) == IF n = 0 THEN 1 ELSE 10 * Pow10(n - 1)

\* the whole number written by a run of digits
RECURSIVE DigitsValue(_)
DigitsValue(s) ==
    IF s = <<>> THEN 0 ELSE 10 * DigitsValue(SubSeq(s, 1, Len(s) - 1)) + DigitVal(s[Len(s)])

\* the fraction written by the digits after a decimal point, in ticks
\* (exact for up to 4 digits; every string of the model has at most 4)
RECURSIVE FractionTicks(_, _)
FractionTicks(s, i) ==
    IF s = <<>> THEN 0
    ELSE DigitVal(Head(s)) * (TicksPerDeg \div Pow10(i)) + FractionTicks(Tail(s), i + 1)

IndexOf(s, c) == IF \E i \in 1..Len(s) : s[i] = c
                 THEN CHOOSE i \in 1..Len(s) : s[i] = c /\ \A j \in 1..(i - 1) : s[j] # c
                 ELSE 0

InfinityStr == <<"I", "n", "f", "i", "n", "i", "t", "y">>

\* Number(string) for an unsigned StrDecimalLiteral without exponent
UnsignedDecimal(body) ==
    LET dot == IndexOf(body, ".")
        whole == IF dot = 0 THEN body ELSE SubSeq(body, 1, dot - 1)
        frac == IF dot = 0 THEN <<>> ELSE SubSeq(body, dot + 1, Len(body))
    IN  IF body = InfinityStr THEN Infinity
        ELSE IF /\ \A i \in 1..Len(whole) : whole[i] \in Digits
                /\ \A i \in 1..Len(frac) : frac[i] \in Digits
                /\ Len(whole) + Len(frac) > 0
             THEN Fin(DigitsValue(whole) * TicksPerDeg + FractionTicks(frac, 1))
             ELSE NaN

NumNeg(x) == IF x.k = "nan" THEN NaN ELSE [k |-> x.k, v |-> -x.v]

\* Number(s) for a string s: white space trimmed, "" is 0, an optional sign,
\* then a decimal literal; anything else is NaN
StringToNumber(s) ==
    LET t == Trim(s)
    IN  IF t = <<>> THEN Fin(0)
        ELSE IF Head(t) = "-" THEN NumNeg(UnsignedDecimal(Tail(t)))
        ELSE IF Head(t) = "+" THEN UnsignedDecimal(Tail(t))
        ELSE UnsignedDecimal(t)

\* Number(x): true is 1, false is 0
ToNumber(x) ==
    CASE x.k = "str" -> StringToNumber(x.s)
      [] x.k = "bool" -> Fin(x.v * TicksPerDeg)
      [] x.k = "null" -> Fin(0)
      [] x.k = "undefined" -> [k |-> "nan", v |-> 0]
      [] OTHER -> x

\* isNaN(x), isFinite(x): both coerce with Number
isNaN(x) == ToNumber(x).k = "nan"
isFinite(x) == ToNumber(x).k = "fin"

\* isNaN(parseFloat(s)) for a string: parseFloat reads the longest numeric
\* prefix after leading white space and is NaN when there is none
ParseFloatStringIsNaN(s) ==
    LET t == TrimLeft(s)
        u == IF t # <<>> /\ Head(t) \in {"-", "+"} THEN Tail(t) ELSE t
    IN  ~ \/ u # <<>> /\ Head(u) \in Digits
          \/ Len(u) >= 2 /\ Head(u) = "." /\ u[2] \in Digits
          \/ Len(u) >= Len(InfinityStr) /\ SubSeq(u, 1, Len(InfinityStr)) = InfinityStr

\* isNaN(parseFloat(x)): a number is first converted to its string
ParseFloatIsNaN(x) ==
    IF x.k = "str" THEN ParseFloatStringIsNaN(x.s) ELSE x.k \notin {"fin", "inf"}

\* String(x) where Dms.parse uses it: finite numbers have returned at line 52
JsString(x) ==
    CASE x.k = "str" -> x.s
      [] x.k = "nan" -> <<"N", "a", "N">>
      [] x.k = "inf" -> IF x.v > 0 THEN InfinityStr ELSE <<"-">> \o InfinityStr
      [] x.k = "undefined" -> <<"u", "n", "d", "e", "f", "i", "n", "e", "d">>
      [] x.k = "null" -> <<"n", "u", "l", "l">>
      [] x.k = "bool" -> IF x.v = 1 THEN <<"t", "r", "u", "e">>
                         ELSE <<"f", "a", "l", "s", "e">>

(***************************** Dms.parse ***********************************)

NumericChars == Digits \cup {".", ","}       \* the class [0-9.,]
CompassChars == {"N", "S", "E", "W", "n", "s", "e", "w"}   \* /[NSEW]$/i
NegativeChars == {"W", "S", "w", "s"}        \* /[WS]$/i

\* .replace(/^-/, '')
StripSign(s) == IF s # <<>> /\ Head(s) = "-" THEN Tail(s) ELSE s

\* .replace(/[NSEW]$/i, '')
StripCompass(s) ==
    IF s # <<>> /\ s[Len(s)] \in CompassChars THEN SubSeq(s, 1, Len(s) - 1) ELSE s

\* .split(/[^0-9.,]+/): the pieces between maximal runs of other characters;
\* a run at the start or the end leaves an empty piece there
RECURSIVE Split(_)
Split(s) ==
    IF \A i \in 1..Len(s) : s[i] \in NumericChars THEN <<s>>
    ELSE LET i == CHOOSE n \in 1..Len(s) :
                      s[n] \notin NumericChars /\ \A j \in 1..(n - 1) : s[j] \in NumericChars
             rest == SubSeq(s, i, Len(s))
             j == IF \A n \in 1..Len(rest) : rest[n] \notin NumericChars THEN Len(rest) + 1
                  ELSE CHOOSE n \in 1..Len(rest) :
                           rest[n] \in NumericChars /\ \A m \in 1..(n - 1) : rest[m] \notin NumericChars
         IN  <<SubSeq(s, 1, i - 1)>> \o Split(SubSeq(rest, j, Len(rest)))

\* if (dmsParts[dmsParts.length-1]=='') dmsParts.splice(dmsParts.length-1)
DropTrailingEmpty(parts) ==
    IF parts # <<>> /\ parts[Len(parts)] = <<>> THEN SubSeq(parts, 1, Len(parts) - 1) ELSE parts

\* dmsParts == '': the array converts to its pieces joined by ',', which is ''
\* for no piece and for one empty piece
ArrayIsEmptyString(parts) == parts = <<>> \/ parts = << <<>> >>

NumAdd(x, y) == IF IsFin(x) /\ IsFin(y) THEN Fin(x.v + y.v) ELSE NaN
NumDiv(x, n) == IF IsFin(x) THEN Fin(x.v \div n) ELSE NaN

\* The sign test without the leading '-'.
SignTestNoMinus(t) == t # <<>> /\ t[Len(t)] \in NegativeChars

\* /^-|[WS]$/i.test(t)
SignTest(t) == t # <<>> /\ (Head(t) = "-" \/ t[Len(t)] \in NegativeChars)

\* Dms.parse without the test dmsParts == ''.
ParseGroupsUnchecked(dms, dmsParts) ==
    IF Len(dmsParts) \notin {1, 2, 3} THEN NaN
    ELSE LET deg == CASE Len(dmsParts) = 3 ->
                           NumAdd(NumAdd(NumDiv(StringToNumber(dmsParts[1]), 1),
                                         NumDiv(StringToNumber(dmsParts[2]), 60)),
                                  NumDiv(StringToNumber(dmsParts[3]), 3600))
                      [] Len(dmsParts) = 2 ->
                           NumAdd(NumDiv(StringToNumber(dmsParts[1]), 1),
                                  NumDiv(StringToNumber(dmsParts[2]), 60))
                      [] Len(dmsParts) = 1 -> StringToNumber(dmsParts[1])
         IN  IF dms.k # "str" THEN Throw("TypeError")
             ELSE IF SignTest(Trim(dms.s)) THEN NumNeg(deg) ELSE deg

\* lines 58-80 of Dms.parse, given the pieces
ParseGroups(dms, dmsParts) ==
    IF ArrayIsEmptyString(dmsParts) THEN NaN
    ELSE IF Len(dmsParts) \notin {1, 2, 3} THEN NaN       \* switch default
    ELSE LET deg == CASE Len(dmsParts) = 3 ->
                           NumAdd(NumAdd(NumDiv(StringToNumber(dmsParts[1]), 1),
                                         NumDiv(StringToNumber(dmsParts[2]), 60)),
                                  NumDiv(StringToNumber(dmsParts[3]), 3600))
                      [] Len(dmsParts) = 2 ->
                           NumAdd(NumDiv(StringToNumber(dmsParts[1]), 1),
                                  NumDiv(StringToNumber(dmsParts[2]), 60))
                      [] Len(dmsParts) = 1 -> StringToNumber(dmsParts[1])
         IN  \* dms.trim() throws a TypeError when dms is not a string
             IF dms.k # "str" THEN Throw("TypeError")
             ELSE IF SignTest(Trim(dms.s)) THEN NumNeg(deg) ELSE deg

parse(dms) ==
    IF ~ParseFloatIsNaN(dms) /\ isFinite(dms) THEN ToNumber(dms)
    ELSE ParseGroups(dms,
             DropTrailingEmpty(Split(StripCompass(StripSign(Trim(JsString(dms)))))))

(***************************** Dms.toDms ***********************************)

\* let dmsSeparator = ' '
dmsSeparator == <<"nnbsp">>

Undefined == [k |-> "undefined", v |-> 0]
Null == [k |-> "null", v |-> 0]
Places(n) == [k |-> "places", v |-> n]     \* a decimal-place count dp

\* the decimal digits of a whole number n >= 0
RECURSIVE IntToDigits(_)
IntToDigits(n) ==
    IF n < 10 THEN <<DigitChars[n + 1]>>
    ELSE IntToDigits(n \div 10) \o <<DigitChars[(n % 10) + 1]>>

\* n as exactly w digits (n < 10^w)
RECURSIVE FixedDigits(_, _)
FixedDigits(n, w) ==
    IF w = 0 THEN <<>> ELSE FixedDigits(n \div 10, w - 1) \o <<DigitChars[(n % 10) + 1]>>

\* .slice(-n)
SliceLast(str, n) == IF Len(str) <= n THEN str ELSE SubSeq(str, Len(str) - n + 1, Len(str))

\* x.toFixed(dp) for a finite x >= 0: the whole number n of units 10^-dp
\* nearest to x, the larger one on a tie, written with dp decimals
\* (dp <= 4: a unit is then a whole number of ticks)
toFixed(x, dp) ==
    LET unit == TicksPerDeg \div Pow10(dp)
        n == (x.v + unit \div 2) \div unit
    IN  IntToDigits(n \div Pow10(dp))
            \o (IF dp = 0 THEN <<>> ELSE <<".">> \o FixedDigits(n % Pow10(dp), dp))

\* (x*m) % n for a finite x >= 0, without forming the product: m divides n degrees
TimesRem(x, m, n) == Fin((x.v % (Deg(n) \div m)) * m)

\* Math.floor(x*m) for a finite x >= 0, a whole number: m divides a degree
TimesFloor(x, m) == x.v \div (TicksPerDeg \div m)

\* a string compared with a number: the string is converted with Number
StrLess(str, n) == StringToNumber(str).v < Deg(n)
StrEquals(str, n) == StringToNumber(str).v = Deg(n)

\* the default decimal places with an unknown format taken as 'dm'
DefaultPlacesUnknownAsDM(format) ==
    CASE format \in {"d", "deg"} -> 4
      [] format \in {"dms", "deg+min+sec"} -> 0
      [] OTHER -> 2

\* the default decimal places by format (lines 105-112)
DefaultPlaces(format) ==
    CASE format \in {"d", "deg"} -> 4
      [] format \in {"dm", "deg+min"} -> 2
      [] format \in {"dms", "deg+min+sec"} -> 0
      [] OTHER -> 4

\* case 'd': case 'deg': and the default of the second switch
FormatD(deg, dp) ==
    LET d0 == toFixed(deg, dp)
        d1 == IF StrLess(d0, 100) THEN <<"0">> \o d0 ELSE d0
        d2 == IF StrLess(d1, 10) THEN <<"0">> \o d1 ELSE d1
    IN  d2 \o <<"deg">>

\* case 'dm' taking the degrees with Math.round instead of Math.floor.
FormatDMRoundsDegrees(deg, dp) ==
    LET d0 == (deg.v + TicksPerDeg \div 2) \div TicksPerDeg
        m0 == toFixed(TimesRem(deg, 60, 60), dp)
        carry == StrEquals(m0, 60)
        m1 == IF carry THEN toFixed(Fin(0), dp) ELSE m0
        d1 == IF carry THEN d0 + 1 ELSE d0
        d == SliceLast(<<"0", "0", "0">> \o IntToDigits(d1), 3)
        m == IF StrLess(m1, 10) THEN <<"0">> \o m1 ELSE m1
    IN  d \o <<"deg">> \o dmsSeparator \o m \o <<"prime">>

\* case 'dm': case 'deg+min':
FormatDM(deg, dp) ==
    LET d0 == TimesFloor(deg, 1)
        m0 == toFixed(TimesRem(deg, 60, 60), dp)
        carry == StrEquals(m0, 60)
        m1 == IF carry THEN toFixed(Fin(0), dp) ELSE m0
        d1 == IF carry THEN d0 + 1 ELSE d0
        d == SliceLast(<<"0", "0", "0">> \o IntToDigits(d1), 3)
        m == IF StrLess(m1, 10) THEN <<"0">> \o m1 ELSE m1
    IN  d \o <<"deg">> \o dmsSeparator \o m \o <<"prime">>

\* case 'dms': case 'deg+min+sec':
FormatDMS(deg, dp) ==
    LET d0 == TimesFloor(deg, 1)
        m0 == TimesFloor(deg, 60) % 60            \* Math.floor((deg*3600)/60) % 60
        s0 == toFixed(TimesRem(deg, 3600, 60), dp)
        carryS == StrEquals(s0, 60)
        s1 == IF carryS THEN toFixed(Fin(0), dp) ELSE s0
        m1 == IF carryS THEN m0 + 1 ELSE m0
        carryM == m1 = 60
        m2 == IF carryM THEN 0 ELSE m1
        d1 == IF carryM THEN d0 + 1 ELSE d0
        d == SliceLast(<<"0", "0", "0">> \o IntToDigits(d1), 3)
        m == SliceLast(<<"0", "0">> \o IntToDigits(m2), 2)
        s == IF StrLess(s1, 10) THEN <<"0">> \o s1 ELSE s1
    IN  d \o <<"deg">> \o dmsSeparator \o m \o <<"prime">> \o dmsSeparator
          \o s \o <<"dprime">>

\* what the second switch builds from Math.abs(-Infinity): Infinity.toFixed()
\* is "Infinity", NaN.toFixed() is "NaN", ('000'+Infinity).slice(-3) is "ity"
\* and ('00'+NaN).slice(-2) is "aN" (no comparison with a number holds)
FormatInfinity(format) ==
    LET ity == SliceLast(<<"0", "0", "0">> \o InfinityStr, 3)
        nan == <<"N", "a", "N">>
    IN  CASE format \in {"dm", "deg+min"} ->
               ity \o <<"deg">> \o dmsSeparator \o nan \o <<"prime">>
          [] format \in {"dms", "deg+min+sec"} ->
               ity \o <<"deg">> \o dmsSeparator \o SliceLast(<<"0", "0">> \o nan, 2)
                   \o <<"prime">> \o dmsSeparator \o nan \o <<"dprime">>
          [] OTHER -> InfinityStr \o <<"deg">>

\* Dms.toDms(deg, format, dp): a string, or Null
toDms(deg, format, dp) ==
    IF isNaN(deg) THEN Null
    ELSE IF deg.k = "str" /\ Trim(deg.s) = <<>> THEN Null
    ELSE IF deg.k = "bool" THEN Null                           \* typeof deg == 'boolean'
    ELSE IF ToNumber(deg) = Infinity THEN Null                 \* deg == Infinity
    \* (deg == null, line 102: null is not among the arguments tried)
    ELSE LET places == IF dp = Undefined THEN DefaultPlaces(format) ELSE dp.v
             x == ToNumber(deg)
             a == IF IsFin(x) THEN Fin(Abs(x.v)) ELSE Infinity    \* Math.abs(deg)
         IN  IF ~IsFin(a) THEN Str(FormatInfinity(format))
             ELSE CASE format \in {"dm", "deg+min"} -> Str(FormatDM(a, places))
                    [] format \in {"dms", "deg+min+sec"} -> Str(FormatDMS(a, places))
                    [] OTHER -> Str(FormatD(a, places))

(***************************** Dms.wrap90/180/360 **************************)

\* A sawtooth written with JavaScript's remainder used as if it were a modulo.
Wrap90NoModulo(degrees) ==
    IF ~IsFin(degrees) THEN NaN
    ELSE IF Deg(-90) <= degrees.v /\ degrees.v <= Deg(90) THEN degrees
    ELSE LET x == degrees.v
             a == Deg(90)
             p == Deg(360)
         IN  Fin(((4 * a) \div p) * Abs(JsRem(x - p \div 4, p) - p \div 2) - a)

wrap90(degrees) ==
    IF ~IsFin(degrees) THEN NaN   \* NaN and Infinity fail both comparisons; Infinity % p is NaN
    ELSE IF Deg(-90) <= degrees.v /\ degrees.v <= Deg(90) THEN degrees
    ELSE LET x == degrees.v
             a == Deg(90)
             p == Deg(360)
         IN  Fin(((4 * a) \div p) * Abs(JsRem(JsRem(x - p \div 4, p) + p, p) - p \div 2) - a)

\* wrap180 with the phase shift "- p/2" left out.
Wrap180NoPhase(degrees) ==
    IF ~IsFin(degrees) THEN NaN
    ELSE IF Deg(-180) <= degrees.v /\ degrees.v <= Deg(180) THEN degrees
    ELSE LET x == degrees.v
             a == Deg(180)
             p == Deg(360)
         IN  Fin(JsRem(JsRem(MulDiv(x, 2 * 180, 360), p) + p, p) - a)

\* wrap180 with the final "- a" left out.
Wrap180NoOffset(degrees) ==
    IF ~IsFin(degrees) THEN NaN
    ELSE IF Deg(-180) <= degrees.v /\ degrees.v <= Deg(180) THEN degrees
    ELSE LET x == degrees.v
             p == Deg(360)
         IN  Fin(JsRem(JsRem(MulDiv(x, 2 * 180, 360) - p \div 2, p) + p, p))

wrap180(degrees) ==
    IF ~IsFin(degrees) THEN NaN
    ELSE IF Deg(-180) <= degrees.v /\ degrees.v <= Deg(180) THEN degrees
    ELSE LET x == degrees.v
             a == Deg(180)
             p == Deg(360)
         IN  Fin(JsRem(JsRem(MulDiv(x, 2 * 180, 360) - p \div 2, p) + p, p) - a)

\* wrap360 whose range test lets 360 through.
Wrap360Closed(degrees) ==
    IF ~IsFin(degrees) THEN NaN
    ELSE IF 0 <= degrees.v /\ degrees.v <= Deg(360) THEN degrees
    ELSE LET x == degrees.v
             p == Deg(360)
         IN  Fin(JsRem(JsRem(MulDiv(x, 2 * 180, 360), p) + p, p))

wrap360(degrees) ==
    IF ~IsFin(degrees) THEN NaN
    ELSE IF 0 <= degrees.v /\ degrees.v < Deg(360) THEN degrees
    ELSE LET x == degrees.v
             p == Deg(360)
         IN  Fin(JsRem(JsRem(MulDiv(x, 2 * 180, 360), p) + p, p))

(***************************** wrap harness ********************************)

MaxWrapDeg == 725

\* Whole, nearly whole and half degrees on both sides of every range boundary.
WrapInputs ==
    { Fin(Deg(d) + f) : d \in (-MaxWrapDeg)..MaxWrapDeg,
                        f \in {0, 1, TicksPerDeg \div 2, TicksPerDeg - 1} }

Idle == <<>>

InitWrap ==
    /\ arg \in WrapInputs
    /\ fn = "none" /\ ret = Idle /\ back = Idle
    /\ lat = NaN /\ lon = NaN /\ thrown = "none"
    /\ points = <<>> /\ polygon = <<>>

CallWrap90 ==
    /\ fn = "none" /\ arg \in WrapInputs
    /\ fn' = "wrap90" /\ ret' = wrap90(arg)
    /\ UNCHANGED <<lat, lon, thrown, arg, back, points, polygon>>

CallWrap180 ==
    /\ fn = "none" /\ arg \in WrapInputs
    /\ fn' = "wrap180" /\ ret' = wrap180(arg)
    /\ UNCHANGED <<lat, lon, thrown, arg, back, points, polygon>>

CallWrap360 ==
    /\ fn = "none" /\ arg \in WrapInputs
    /\ fn' = "wrap360" /\ ret' = wrap360(arg)
    /\ UNCHANGED <<lat, lon, thrown, arg, back, points, polygon>>

NextWrap == CallWrap90 \/ CallWrap180 \/ CallWrap360

SpecWrap == InitWrap /\ [][NextWrap]_vars

(***************************** claims on the wraps *************************)

\* The triangle wave of period 360 and amplitude 90, with a non-negative modulo.
Triangle(x) == Abs(((x - Deg(90)) % Deg(360)) - Deg(180)) - Deg(90)

Congruent360(x, y) == (x - y) % Deg(360) = 0

\* C2: wrap90 is the identity on [-90,90]; for every other finite x it equals
\* the triangle wave |((x-90) mod 360) - 180| - 90; its result lies in
\* [-90,90]; wrap90(91) = 89, wrap90(-91) = -89, wrap90(270) = -90.
C2_Wrap90Triangle ==
    fn = "wrap90" =>
        /\ IsFin(ret)
        /\ (Deg(-90) <= arg.v /\ arg.v <= Deg(90)) => ret = arg
        /\ ~(Deg(-90) <= arg.v /\ arg.v <= Deg(90)) => ret.v = Triangle(arg.v)
        /\ Deg(-90) <= ret.v /\ ret.v <= Deg(90)
        /\ arg = Fin(Deg(91)) => ret = Fin(Deg(89))
        /\ arg = Fin(Deg(-91)) => ret = Fin(Deg(-89))
        /\ arg = Fin(Deg(270)) => ret = Fin(Deg(-90))

C2_Witness == fn = "wrap90" /\ arg = Fin(Deg(-91)) /\ ret = Fin(Deg(-89))

C5_WrapIdempotent ==
    /\ fn = "wrap90" => wrap90(ret) = ret
    /\ fn = "wrap180" => wrap180(ret) = ret
    /\ fn = "wrap360" => wrap360(ret) = ret

C5_Witness ==
    /\ fn = "wrap180" /\ arg = Fin(Deg(400) + 1)
    /\ ret # arg /\ wrap180(ret) = ret

(***************************** parse harness *******************************)

MaxGroups == 4

GroupSet == { <<"7">>, <<"3", "0", ".", "5">>, <<"1", ",", "5">> }

RECURSIVE Join(_, _)
Join(groups, sep) ==
    IF groups = <<>> THEN <<>>
    ELSE IF Len(groups) = 1 THEN groups[1]
    ELSE groups[1] \o sep \o Join(Tail(groups), sep)

\* [pad] [-] [separator] group separator group ... [separator] [letter] [pad]
StructuredStrings ==
    { pad \o sign \o lead \o Join(gs, sep) \o trail \o letter \o pad :
        pad \in {<<>>, <<" ">>},
        sign \in {<<>>, <<"-">>},
        sep \in {<<" ">>, <<"deg", "nnbsp">>},
        lead \in {<<>>, <<"deg">>},
        trail \in {<<>>, <<"dprime">>},
        letter \in {<<>>, <<"N">>, <<"W">>, <<"s">>},
        gs \in UNION { [1..n -> GroupSet] : n \in 0..MaxGroups } }

OtherStrings ==
    { InfinityStr, <<"-">> \o InfinityStr, <<"N", "a", "N">>, <<"a", "b", "c">>,
      <<".">>, <<"7", ".">>, <<".", "5">>, <<"-", ".", "5">>, <<"-", "-", "7">>,
      <<"7", "W", "W">>, <<"0", "0", "7", ".", "2", "5">>, <<"7", "E">>, <<"7", "S">> }

ParseInputs ==
    { Str(t) : t \in StructuredStrings \cup OtherStrings }
        \cup { Fin(Deg(7)), Fin(0), Fin(-Deg(3) - 1), NaN, Infinity, NegInfinity }

InitParse ==
    /\ arg \in ParseInputs
    /\ fn = "none" /\ ret = Idle /\ back = Idle
    /\ lat = NaN /\ lon = NaN /\ thrown = "none"
    /\ points = <<>> /\ polygon = <<>>

CallParse ==
    /\ fn = "none" /\ arg \in ParseInputs
    /\ fn' = "parse" /\ ret' = parse(arg)
    /\ UNCHANGED <<lat, lon, thrown, arg, back, points, polygon>>

NextParse == CallParse

SpecParse == InitParse /\ [][NextParse]_vars

(***************************** claims on Dms.parse *************************)

\* the numeric groups of a string: its maximal non-empty runs of [0-9.,]
NumericGroups(t) == SelectSeq(Split(t), LAMBDA g : g # <<>>)

\* d + m/60 + s/3600, d + m/60 or d by the number of groups; NaN otherwise
GroupsValue(groups) ==
    CASE Len(groups) = 3 ->
           NumAdd(NumAdd(StringToNumber(groups[1]), NumDiv(StringToNumber(groups[2]), 60)),
                  NumDiv(StringToNumber(groups[3]), 3600))
      [] Len(groups) = 2 ->
           NumAdd(StringToNumber(groups[1]), NumDiv(StringToNumber(groups[2]), 60))
      [] Len(groups) = 1 -> StringToNumber(groups[1])
      [] OTHER -> NaN

PlainDecimal(t) == Trim(t) # <<>> /\ IsFin(StringToNumber(t))

Stripped(t) == StripCompass(StripSign(Trim(t)))

SameMagnitude(x, y) == x = y \/ x = NumNeg(y)

\* C6 as stated: on a string that is not a plain finite decimal, Dms.parse
\* returns (up to the sign) d + m/60 + s/3600 for three numeric groups,
\* d + m/60 for two, the value of the group for one, and NaN for no group,
\* four or more groups, or a group that is not a number.
C6_ParseByGroups ==
    (fn = "parse" /\ arg.k = "str" /\ ~PlainDecimal(arg.s)) =>
        SameMagnitude(ret, GroupsValue(NumericGroups(Stripped(arg.s))))

\* The same holds of every input whose stripped text starts with a numeric
\* character: only a leading run of other characters makes parse differ.
C6_ParseByGroupsNoLeadingRun ==
    (/\ fn = "parse" /\ arg.k = "str" /\ ~PlainDecimal(arg.s)
     /\ (Stripped(arg.s) = <<>> \/ Head(Stripped(arg.s)) \in NumericChars)) =>
        SameMagnitude(ret, GroupsValue(NumericGroups(Stripped(arg.s))))

\* C7: the result is negative exactly when the trimmed input starts with '-'
\* or ends with W or S in either case (one negation even with both marks); a
\* trailing N or E leaves it positive.
C7_ParseSign ==
    (fn = "parse" /\ arg.k = "str" /\ IsFin(ret) /\ ret.v # 0) =>
        LET t == Trim(arg.s)
        IN  ret.v < 0 <=> (Head(t) = "-" \/ t[Len(t)] \in {"W", "S", "w", "s"})

C7_Witness ==
    /\ fn = "parse" /\ arg = Str(<<"-", "7", " ", "3", "0", ".", "5", "W">>)
    /\ ret = Fin(-(Deg(7) + (Deg(30) + TicksPerDeg \div 2) \div 60))

\* C8: for every number and every string Dms.parse returns a number or NaN;
\* it never throws.
C8_ParseNeverThrows ==
    fn = "parse" => ret.k \in {"fin", "nan"}

C8_Witness == fn = "parse" /\ arg = NaN /\ ret = NaN

(***************************** LatLonSpherical *****************************)

\* Arguments tried on the constructor and the setters: numbers inside and
\* outside the ranges, NaN, the infinities, and text.
PointArgs ==
    { Fin(0), Fin(Deg(51) + 1), Fin(Deg(90)), Fin(Deg(91)), Fin(Deg(-91)),
      Fin(Deg(180)), Fin(Deg(-180)), Fin(Deg(181)), Fin(Deg(540)),
      NaN, Infinity, NegInfinity,
      Str(<<"5", "1", " ", "2", "8", " ", "4", "0", "N">>),
      Str(<<"3", " ", "3", "7", " ", "1", "2", "W">>),
      Str(<<"-", "9", "1">>), Str(<<"2", "7", "0">>), Str(<<>>),
      Str(<<"a", "b", "c">>), Str(<<"1", ",", "5">>) }

\* this._lat = isNaN(lat) ? Dms.wrap90(Dms.parse(lat)) : Dms.wrap90(Number(lat))
LatToStore(v) == IF isNaN(v) THEN wrap90(parse(v)) ELSE wrap90(ToNumber(v))

\* this._lon = isNaN(lon) ? Dms.wrap180(Dms.parse(lon)) : Dms.wrap180(Number(lon))
LonToStore(v) == IF isNaN(v) THEN wrap180(parse(v)) ELSE wrap180(ToNumber(v))

\* constructor(lat, lon): throws on isNaN(lat) or isNaN(lon), so a point
\* exists only for arguments that pass both tests
Init ==
    /\ \E lat0 \in PointArgs, lon0 \in PointArgs :
          /\ ~isNaN(lat0) /\ ~isNaN(lon0)
          /\ lat = wrap90(ToNumber(lat0))
          /\ lon = wrap180(ToNumber(lon0))
    /\ thrown = "none"
    /\ fn = "none" /\ arg = Idle /\ ret = Idle /\ back = Idle
    /\ points = <<>> /\ polygon = <<>>

\* a setter body: the field is assigned first and tested afterwards
StoreLat(v) ==
    IF isNaN(v) /\ parse(v).k = "throw"
    THEN thrown' = parse(v).e /\ UNCHANGED lat
    ELSE /\ lat' = LatToStore(v)
         /\ thrown' = IF LatToStore(v).k = "nan" THEN "TypeError" ELSE "none"

StoreLon(v) ==
    IF isNaN(v) /\ parse(v).k = "throw"
    THEN thrown' = parse(v).e /\ UNCHANGED lon
    ELSE /\ lon' = LonToStore(v)
         /\ thrown' = IF LonToStore(v).k = "nan" THEN "TypeError" ELSE "none"

SetLat == \E v \in PointArgs :
    StoreLat(v) /\ fn' = "set lat" /\ UNCHANGED <<lon, arg, ret, back, points, polygon>>

SetLatitude == \E v \in PointArgs :
    StoreLat(v) /\ fn' = "set latitude" /\ UNCHANGED <<lon, arg, ret, back, points, polygon>>

SetLon == \E v \in PointArgs :
    StoreLon(v) /\ fn' = "set lon" /\ UNCHANGED <<lat, arg, ret, back, points, polygon>>

SetLng == \E v \in PointArgs :
    StoreLon(v) /\ fn' = "set lng" /\ UNCHANGED <<lat, arg, ret, back, points, polygon>>

SetLongitude == \E v \in PointArgs :
    StoreLon(v) /\ fn' = "set longitude" /\ UNCHANGED <<lat, arg, ret, back, points, polygon>>

Next == SetLat \/ SetLatitude \/ SetLon \/ SetLng \/ SetLongitude

Spec == Init /\ [][Next]_vars

(***************************** claims on the point *************************)

\* C1: in every reachable state of a point the stored latitude is a number in
\* [-90,90] and the stored longitude a number in [-180,180]; neither is NaN.
C1_PointInRange ==
    /\ IsFin(lat) /\ Deg(-90) <= lat.v /\ lat.v <= Deg(90)
    /\ IsFin(lon) /\ Deg(-180) <= lon.v /\ lon.v <= Deg(180)

\* What the constructor and the setters do establish: a stored coordinate is
\* NaN or a number in its range.
C1_InRangeUnlessNaN ==
    /\ IsFin(lat) => (Deg(-90) <= lat.v /\ lat.v <= Deg(90))
    /\ IsFin(lon) => (Deg(-180) <= lon.v /\ lon.v <= Deg(180))
    /\ lat.k \in {"fin", "nan"} /\ lon.k \in {"fin", "nan"}

(***************************** format harness ******************************)

MaxFormatDeg == 1234     \* the largest whole degrees formatted
NearTicks == 60          \* how many ticks next to a whole degree or minute are tried
MaxPlaces == 1           \* the largest dp passed explicitly

FormatDegrees == {0, 9, 99, 359, 999, MaxFormatDeg}

\* fractions of a degree: just above a whole degree, just below the next,
\* around a whole minute, and 37' 12"
FormatFractions ==
    (0..NearTicks) \cup ((TicksPerDeg - NearTicks)..(TicksPerDeg - 1))
        \cup { TicksPerDeg \div 60 + i - NearTicks \div 2 : i \in 0..NearTicks }
        \cup { 37 * (TicksPerDeg \div 60) + 12 * (TicksPerDeg \div 3600) }

FormatValues ==
    { Fin(sign * (Deg(d) + f)) : sign \in {1, -1}, d \in FormatDegrees, f \in FormatFractions }

Formats == {"d", "dm", "dms", "deg+min+sec", "x"}

FormatArgs ==
    [deg : FormatValues, format : Formats,
     dp : {Undefined} \cup {Places(n) : n \in 0..MaxPlaces}]

InitFormat ==
    /\ arg \in FormatArgs
    /\ fn = "none" /\ ret = Idle /\ back = Idle
    /\ lat = NaN /\ lon = NaN /\ thrown = "none"
    /\ points = <<>> /\ polygon = <<>>

CallToDms ==
    /\ fn = "none" /\ arg \in FormatArgs
    /\ fn' = "toDms" /\ ret' = toDms(arg.deg, arg.format, arg.dp)
    /\ UNCHANGED <<lat, lon, thrown, arg, back, points, polygon>>

\* Dms.parse applied to the string Dms.toDms returned
CallParseFormatted ==
    /\ fn = "toDms" /\ ret.k = "str"
    /\ fn' = "parse(toDms)" /\ back' = parse(ret)
    /\ UNCHANGED <<lat, lon, thrown, arg, ret, points, polygon>>

NextFormat == CallToDms \/ CallParseFormatted

SpecFormat == InitFormat /\ [][NextFormat]_vars

(***************************** claims on Dms.toDms *************************)

\* the size, in ticks, of one unit of the last digit a style writes with dp
\* decimals: of degrees (d), of minutes (dm), of seconds (dms)
LastDigitUnit(format, dp) ==
    CASE format \in {"dm", "deg+min"} -> (TicksPerDeg \div 60) \div Pow10(dp)
      [] format \in {"dms", "deg+min+sec"} -> (TicksPerDeg \div 3600) \div Pow10(dp)
      [] OTHER -> TicksPerDeg \div Pow10(dp)

\* n rounded to the nearest multiple of unit, upwards on a tie
Nearest(n, unit) == ((n + unit \div 2) \div unit) * unit

PlacesOf(a) == IF a.dp = Undefined THEN DefaultPlaces(a.format) ELSE a.dp.v

Fields(str) == NumericGroups(str)

\* C10 as stated: for every non-negative value and every dp the minutes field
\* (dm, dms) and the seconds field (dms) are below 60, and the fields denote
\* the value rounded to the last digit: d + m/60 (dm), d + m/60 + s/3600 (dms).
C10_CarryDenotesRounded ==
    (/\ fn = "toDms" /\ arg.deg.v >= 0
     /\ arg.format \in {"dm", "dms", "deg+min+sec"}) =>
        LET f == Fields(ret.s)
            unit == LastDigitUnit(arg.format, PlacesOf(arg))
        IN  /\ Len(f) = IF arg.format = "dm" THEN 2 ELSE 3
            /\ \A i \in 2..Len(f) : StrLess(f[i], 60)
            /\ GroupsValue(f) = Fin(Nearest(arg.deg.v, unit))

\* The same for the values whose rounded degrees fit the three digits of the
\* degrees field.
C10_CarryBelow1000 ==
    (/\ fn = "toDms" /\ arg.deg.v >= 0
     /\ arg.format \in {"dm", "dms", "deg+min+sec"}
     /\ Nearest(arg.deg.v, LastDigitUnit(arg.format, PlacesOf(arg))) < Deg(1000)) =>
        LET f == Fields(ret.s)
            unit == LastDigitUnit(arg.format, PlacesOf(arg))
        IN  /\ Len(f) = IF arg.format = "dm" THEN 2 ELSE 3
            /\ \A i \in 2..Len(f) : StrLess(f[i], 60)
            /\ GroupsValue(f) = Fin(Nearest(arg.deg.v, unit))

(***************************** Dms.toDms on what is no angle ***************)

\* the arguments for which line 98-101 are written: NaN, the infinities,
\* empty and blank strings, a string that is no number, booleans
NoAngles ==
    {NaN, Infinity, NegInfinity, Bool(TRUE), Bool(FALSE),
     Str(<<>>), Str(<<" ">>), Str(<<"nnbsp", " ">>), Str(<<"a">>),
     Str(InfinityStr), Str(<<"-">> \o InfinityStr)}

NoAngleArgs ==
    [deg : NoAngles, format : Formats,
     dp : {Undefined} \cup {Places(n) : n \in 0..MaxPlaces}]

InitNoAngle ==
    /\ arg \in NoAngleArgs
    /\ fn = "none" /\ ret = Idle /\ back = Idle
    /\ lat = NaN /\ lon = NaN /\ thrown = "none"
    /\ points = <<>> /\ polygon = <<>>

CallToDmsNoAngle ==
    /\ fn = "none" /\ arg \in NoAngleArgs
    /\ fn' = "toDms" /\ ret' = toDms(arg.deg, arg.format, arg.dp)
    /\ UNCHANGED <<lat, lon, thrown, arg, back, points, polygon>>

NextNoAngle == CallToDmsNoAngle

SpecNoAngle == InitNoAngle /\ [][NextNoAngle]_vars

\* C11: for every style and dp, Dms.toDms returns null (and throws nothing)
\* when its argument is NaN, an empty or blank string, a boolean, or
\* positive or negative infinity.
C11_NoAngleGivesNull ==
    (/\ fn = "toDms"
     /\ \/ arg.deg \in {NaN, Infinity, NegInfinity, Bool(TRUE), Bool(FALSE)}
        \/ arg.deg.k = "str" /\ Trim(arg.deg.s) = <<>>) =>
        ret = Null

\* The same without negative infinity.
C11_NullExceptNegInfinity ==
    (/\ fn = "toDms"
     /\ \/ arg.deg \in {NaN, Infinity, Bool(TRUE), Bool(FALSE)}
        \/ arg.deg.k = "str" /\ Trim(arg.deg.s) = <<>>) =>
        ret = Null

(***************************** claims on the styles *************************)

\* how many digits a numeric field has after its decimal point
Decimals(field) == IF IndexOf(field, ".") = 0 THEN 0 ELSE Len(field) - IndexOf(field, ".")

KnownFormats == {"d", "deg", "dm", "deg+min", "dms", "deg+min+sec"}

\* C12: without dp the last field is written with 4 (d), 2 (dm) or 0 (dms)
\* decimal places; for every value and every dp, given or not, a style that
\* is not recognised gives exactly what the style d gives (4 places without
\* dp), and no error.
C12_DefaultPlacesAndStyle ==
    fn = "toDms" =>
        LET f == Fields(ret.s)
        IN  /\ ret.k = "str"
            /\ (arg.dp = Undefined /\ arg.format = "d") =>
                   Len(f) = 1 /\ Decimals(f[1]) = 4
            /\ (arg.dp = Undefined /\ arg.format = "dm") =>
                   Len(f) = 2 /\ Decimals(f[1]) = 0 /\ Decimals(f[2]) = 2
            /\ (arg.dp = Undefined /\ arg.format \in {"dms", "deg+min+sec"}) =>
                   Len(f) = 3 /\ \A i \in 1..3 : Decimals(f[i]) = 0
            /\ arg.format \notin KnownFormats =>
                   /\ ret = toDms(arg.deg, "d", arg.dp)
                   /\ Len(f) = 1
                   /\ Decimals(f[1]) = IF arg.dp = Undefined THEN 4 ELSE arg.dp.v

C12_Witness ==
    /\ fn = "toDms" /\ arg.format = "x" /\ arg.dp = Undefined
    /\ arg.deg = Fin(-(Deg(9) + 37 * (TicksPerDeg \div 60) + 12 * (TicksPerDeg \div 3600)))
    /\ ret = Str(<<"0", "0", "9", ".", "6", "2", "0", "0", "deg">>)

(***************************** Dms.toBrng ***********************************)

\* str.replace(pattern, replacement) with a string pattern: the first
\* occurrence only, wherever it is
ReplaceFirst(str, pattern, replacement) ==
    LET n == Len(pattern)
        at(i) == i + n - 1 <= Len(str) /\ SubSeq(str, i, i + n - 1) = pattern
    IN  IF \E i \in 1..Len(str) : at(i)
        THEN LET i == CHOOSE j \in 1..Len(str) : at(j) /\ \A k \in 1..(j - 1) : ~at(k)
             IN  SubSeq(str, 1, i - 1) \o replacement \o SubSeq(str, i + n, Len(str))
        ELSE str

\* Dms.toBrng(deg, format, dp)
toBrng(deg, format, dp) ==
    LET brng == toDms(wrap360(deg), format, dp)
    IN  IF brng = Null THEN Str(<<"endash">>)
        ELSE Str(ReplaceFirst(brng.s, <<"3", "6", "0">>, <<"0">>))

BearingDegrees == {-1, 0, 12, 36, 359, 360, 719}

\* fractions of a degree: none, 0.036, 0.3601, 37' 12", and the last
\* ticks below the next degree
BearingFractions ==
    {0, 36 * (TicksPerDeg \div 1000), 3601 * (TicksPerDeg \div 10000),
     37 * (TicksPerDeg \div 60) + 12 * (TicksPerDeg \div 3600)}
        \cup ((TicksPerDeg - NearTicks)..(TicksPerDeg - 1))

BearingValues == { Fin(Deg(d) + f) : d \in BearingDegrees, f \in BearingFractions }

BearingArgs ==
    [deg : BearingValues, format : Formats,
     dp : {Undefined} \cup {Places(n) : n \in 0..MaxPlaces}]

InitBearing ==
    /\ arg \in BearingArgs
    /\ fn = "none" /\ ret = Idle /\ back = Idle
    /\ lat = NaN /\ lon = NaN /\ thrown = "none"
    /\ points = <<>> /\ polygon = <<>>

CallToBrng ==
    /\ fn = "none" /\ arg \in BearingArgs
    /\ fn' = "toBrng" /\ ret' = toBrng(arg.deg, arg.format, arg.dp)
    /\ UNCHANGED <<lat, lon, thrown, arg, back, points, polygon>>

NextBearing == CallToBrng

SpecBearing == InitBearing /\ [][NextBearing]_vars

\* the whole degrees written by the first field of a formatted string
DegreesField(str) ==
    LET f == Fields(str)[1]
    IN  IF IndexOf(f, ".") = 0 THEN f ELSE SubSeq(f, 1, IndexOf(f, ".") - 1)

\* C13: Dms.toBrng(x) is format(wrap360(x)) unchanged whenever the degrees
\* written are not 360; when rounding brings the degrees to 360 they are
\* replaced by 0; so what is written denotes wrap360(x) rounded to the last
\* digit of the style, in [0,360).
C13_BrngIsFormatUnless360 ==
    fn = "toBrng" =>
        LET brng == toDms(wrap360(arg.deg), arg.format, arg.dp)
            unit == LastDigitUnit(arg.format, PlacesOf(arg))
            denoted == GroupsValue(Fields(ret.s))
        IN  /\ DegreesField(brng.s) # <<"3", "6", "0">> => ret = brng
            /\ DegreesField(brng.s) = <<"3", "6", "0">> => DegreesField(ret.s) = <<"0">>
            /\ denoted = Fin(Nearest(wrap360(arg.deg).v, unit) % Deg(360))
            /\ 0 <= denoted.v /\ denoted.v < Deg(360)

\* The same for the bearings whose formatted text holds the digits 360
\* nowhere but as its degrees.
C13_Unless360InDecimals ==
    (/\ fn = "toBrng"
     /\ LET brng == toDms(wrap360(arg.deg), arg.format, arg.dp)
        IN  \A i \in 2..Len(brng.s) :
               ~(i + 2 <= Len(brng.s) /\ SubSeq(brng.s, i, i + 2) = <<"3", "6", "0">>)) =>
        LET brng == toDms(wrap360(arg.deg), arg.format, arg.dp)
            unit == LastDigitUnit(arg.format, PlacesOf(arg))
            denoted == GroupsValue(Fields(ret.s))
        IN  /\ DegreesField(brng.s) # <<"3", "6", "0">> => ret = brng
            /\ DegreesField(brng.s) = <<"3", "6", "0">> => DegreesField(ret.s) = <<"0">>
            /\ denoted = Fin(Nearest(wrap360(arg.deg).v, unit) % Deg(360))
            /\ 0 <= denoted.v /\ denoted.v < Deg(360)

(***************************** Dms.compassPoint *****************************)

\* const cardinals = [ 'N', 'NNE', ... ]
cardinals ==
    << <<"N">>, <<"N", "N", "E">>, <<"N", "E">>, <<"E", "N", "E">>,
       <<"E">>, <<"E", "S", "E">>, <<"S", "E">>, <<"S", "S", "E">>,
       <<"S">>, <<"S", "S", "W">>, <<"S", "W">>, <<"W", "S", "W">>,
       <<"W">>, <<"W", "N", "W">>, <<"N", "W">>, <<"N", "N", "W">> >>

\* a precision check that lets 4 through as well
PrecisionIsUpToFour(precision) ==
    ToNumber(precision) \in {Fin(Deg(1)), Fin(Deg(2)), Fin(Deg(3)), Fin(Deg(4))}

\* [ 1, 2, 3 ].includes(Number(precision))
PrecisionIsValid(precision) ==
    ToNumber(precision) \in {Fin(Deg(1)), Fin(Deg(2)), Fin(Deg(3))}

\* Math.floor(bearing*n/360) for 0 <= bearing < 360
SectorBelow(bearing, n) == bearing.v \div (Deg(360) \div n)

\* Math.round(bearing*n/360) for 0 <= bearing < 360: the nearest whole
\* number, the larger one on a tie (a sector is a whole, even number of ticks)
RoundSector(bearing, n) ==
    (bearing.v + (Deg(360) \div n) \div 2) \div (Deg(360) \div n)

\* Dms.compassPoint(bearing, precision=3): a name, or the RangeError thrown
compassPoint(bearing, precision0) ==
    LET precision == IF precision0 = Undefined THEN Fin(Deg(3)) ELSE precision0
    IN  IF ~PrecisionIsValid(precision) THEN Throw("RangeError")
        ELSE LET b == wrap360(bearing)
                 n == 4 * 2 ^ (ToNumber(precision).v \div TicksPerDeg - 1)
             IN  IF ~IsFin(b) THEN Undefined          \* cardinals[NaN]
                 ELSE Str(cardinals[((RoundSector(b, n) % n) * 16) \div n + 1])

MaxCompassDeg == 365     \* bearings of -365..365 degrees are tried

\* whole degrees and the quarter and half degrees, where sectors meet
\* (11.25, 22.5, 33.75, ...), each with the tick below it
CompassBearings ==
    { Fin(Deg(d) + f) : d \in (-MaxCompassDeg)..MaxCompassDeg,
                        f \in {0, 1, TicksPerDeg \div 4 - 1, TicksPerDeg \div 4,
                               TicksPerDeg \div 2 - 1, TicksPerDeg \div 2,
                               3 * (TicksPerDeg \div 4) - 1, 3 * (TicksPerDeg \div 4),
                               TicksPerDeg - 1} }

Precisions ==
    {Undefined, Null, NaN, Infinity, Bool(TRUE), Str(<<"2">>), Str(<<"x">>),
     Fin(Deg(1) + TicksPerDeg \div 2)} \cup {Fin(Deg(p)) : p \in (-1)..5}

CompassArgs == [bearing : CompassBearings, precision : Precisions]

InitCompass ==
    /\ arg \in CompassArgs
    /\ fn = "none" /\ ret = Idle /\ back = Idle
    /\ lat = NaN /\ lon = NaN /\ thrown = "none"
    /\ points = <<>> /\ polygon = <<>>

CallCompassPoint ==
    /\ fn = "none" /\ arg \in CompassArgs
    /\ fn' = "compassPoint" /\ ret' = compassPoint(arg.bearing, arg.precision)
    /\ UNCHANGED <<lat, lon, thrown, arg, back, points, polygon>>

NextCompass == CallCompassPoint

SpecCompass == InitCompass /\ [][NextCompass]_vars

(***************************** claims on Dms.compassPoint *******************)

\* the precision a call works with: 3 when none is passed, else its number
PrecisionOf(a) == IF a.precision = Undefined THEN Fin(Deg(3)) ELSE ToNumber(a.precision)

ValidPrecisions == {Fin(Deg(1)), Fin(Deg(2)), Fin(Deg(3))}

Names == {cardinals[i] : i \in 1..16}

Apart(x, y) == IF Abs(x - y) <= Deg(180) THEN Abs(x - y) ELSE Deg(360) - Abs(x - y)

\* the direction of the i-th of the 16 names, counted from 0 at N
Direction(i) == i * (Deg(360) \div 16)

TrigScale == 100 * 100

\* a/b rounded toward zero
Quot(a, b) == (IF (a < 0) = (b < 0) THEN 1 ELSE -1) * (Abs(a) \div Abs(b))

\* x*y of two scaled values, without forming the product
Times(x, y) ==
    (IF (x < 0) = (y < 0) THEN 1 ELSE -1) * MulDiv(Abs(x), Abs(y), TrigScale)

\* sin 0, 15, ..., 90 degrees
SinTable == <<0, 2588, 5000, 7071, 8660, 9659, 10000>>

\* Math.sin of an angle of a ticks
Sin(a) ==
    LET k == (a \div Deg(15)) % 24
    IN  CASE k <= 6 -> SinTable[k + 1]
          [] k <= 12 -> SinTable[12 - k + 1]
          [] k <= 18 -> -SinTable[k - 12 + 1]
          [] OTHER -> -SinTable[24 - k + 1]

\* Math.cos
Cos(a) == Sin(a + Deg(90))

\* Math.tan at 90 degrees: the double nearest to pi/2 is below pi/2, so the
\* tangent is very large (1.6e16) and finite
TanHuge == TrigScale * TrigScale

\* Math.tan
Tan(a) ==
    IF Cos(a) = 0 THEN (IF Sin(a) > 0 THEN TanHuge ELSE -TanHuge)
    ELSE Quot(Sin(a) * TrigScale, Cos(a))

\* a/b for 0 <= a <= b, b > 0, as a scaled value
Ratio(a, b) ==
    IF b >= 10 * TrigScale THEN a \div (b \div TrigScale) ELSE (a * TrigScale) \div b

\* Math.atan(t) in ticks for a scaled 0 <= t <= 1, by
\* 45 t - t (t - 1) (14.0203 + 3.7987 t) degrees (within 0.09 degrees)
AtanUnit(t) ==
    LET c == Deg(14) + 203 * (TicksPerDeg \div TrigScale)
                 + MulDiv(Deg(3) + 7987 * (TicksPerDeg \div TrigScale), t, TrigScale)
    IN  MulDiv(Deg(45), t, TrigScale) + MulDiv(c, (t * (TrigScale - t)) \div TrigScale, TrigScale)

\* Math.atan2(y, x).toDegrees() in ticks, within (-180, 180] degrees
Atan2(y, x) ==
    IF x = 0 /\ y = 0 THEN 0
    ELSE LET a == Abs(y)
             b == Abs(x)
             acute == IF a <= b THEN AtanUnit(Ratio(a, b))
                      ELSE Deg(90) - AtanUnit(Ratio(b, a))
             theta == IF x >= 0 THEN acute ELSE Deg(180) - acute
         IN  IF y < 0 THEN -theta ELSE theta

\* Number.prototype.toRadians of an angle of a ticks, as a scaled value
\* (1/TrigScale of a radian is 2062.65 ticks)
toRadians(a) == (IF a < 0 THEN -1 ELSE 1) * MulDiv(Abs(a), 100, 206265)

\* Math.log(Math.tan(a)) for a = 15, 30, ..., 90 degrees
LogTanTable == <<-13170, -5493, 0, 5493, 13170, 373300>>

(***************************** bearings *************************************)

\* a LatLonSpherical instance: its _lat and _lon
Point(la, lo) == [lat |-> la, lon |-> lo]

\* Math.abs(a - b) > Number.EPSILON: a tick is far above the epsilon, and
\* no comparison with NaN holds
Exceeds(a, b) == IsFin(a) /\ IsFin(b) /\ a.v # b.v

\* p.equals(q)
equals(p, q) == ~Exceeds(p.lat, q.lat) /\ ~Exceeds(p.lon, q.lon)

AllFinite(p, q) == IsFin(p.lat) /\ IsFin(p.lon) /\ IsFin(q.lat) /\ IsFin(q.lon)

\* x = cos(phi1) sin(phi2) - sin(phi1) cos(phi2) cos(dlambda)
BearingX(p, q) ==
    Times(Cos(p.lat.v), Sin(q.lat.v))
        - Times(Times(Sin(p.lat.v), Cos(q.lat.v)), Cos(q.lon.v - p.lon.v))

\* y = sin(dlambda) cos(phi2)
BearingY(p, q) == Times(Sin(q.lon.v - p.lon.v), Cos(q.lat.v))

\* p.initialBearingTo(q) with the arithmetic done exactly
initialBearingTo(p, q) ==
    IF equals(p, q) THEN NaN
    ELSE IF ~AllFinite(p, q) THEN NaN
    ELSE wrap360(Fin(Atan2(BearingY(p, q), BearingX(p, q))))

\* where x and y both vanish in exact arithmetic (two points at a pole,
\* antipodal points, longitudes -180 and 180) the rounding residues of
\* Math.sin and Math.cos decide the angle: some bearing
ResidueBearings == {Fin(0), Fin(Deg(90)), Fin(Deg(270)), Fin(Deg(360) - 1)}

\* what p.initialBearingTo(q) can return
InitialBearings(p, q) ==
    IF ~equals(p, q) /\ AllFinite(p, q) /\ BearingX(p, q) = 0 /\ BearingY(p, q) = 0
    THEN ResidueBearings
    ELSE {initialBearingTo(p, q)}

\* what p.finalBearingTo(q) can return: q.initialBearingTo(p) + 180, wrapped
FinalBearings(p, q) ==
    { wrap360(NumAdd(b, Fin(Deg(180)))) : b \in InitialBearings(q, p) }

\* Math.log(Math.tan(phi2/2 + pi/4) / Math.tan(phi1/2 + pi/4)): the tangent
\* is 0 at latitude -90, so the quotient is 0/0 (NaN), t/0 (Infinity) or 0
\* (its logarithm -Infinity); the logarithm of any other quotient is the
\* difference of the logarithms
MercatorDifference(phi1, phi2) ==
    LET a1 == phi1 \div 2 + Deg(45)
        a2 == phi2 \div 2 + Deg(45)
    IN  CASE Tan(a1) = 0 /\ Tan(a2) = 0 -> NaN
          [] Tan(a1) = 0 -> Infinity
          [] Tan(a2) = 0 -> NegInfinity
          [] OTHER -> Fin(LogTanTable[a2 \div Deg(15)] - LogTanTable[a1 \div Deg(15)])

\* if (Math.abs(dlambda) > pi) dlambda = dlambda > 0 ? -(2 pi - dlambda) : (2 pi + dlambda)
ShorterWay(dlambda) ==
    IF Abs(dlambda) > Deg(180)
    THEN (IF dlambda > 0 THEN -(Deg(360) - dlambda) ELSE Deg(360) + dlambda)
    ELSE dlambda

\* p.rhumbBearingTo(q)
rhumbBearingTo(p, q) ==
    IF equals(p, q) THEN NaN
    ELSE IF ~AllFinite(p, q) THEN NaN
    ELSE LET dlambda == ShorterWay(q.lon.v - p.lon.v)
             dpsi == MercatorDifference(p.lat.v, q.lat.v)
             theta == CASE dpsi = NaN -> NaN
                        [] dpsi = Infinity -> Fin(0)
                        [] dpsi = NegInfinity ->
                               Fin(IF dlambda < 0 THEN Deg(-180) ELSE Deg(180))
                        [] OTHER -> Fin(Atan2(toRadians(dlambda), dpsi.v))
         IN  wrap360(theta)

BearingLats == {-90, -30, 0, 60, 90}
BearingLons == {-180, -90, 0, 30, 180}

\* the points tried: a grid, and a point whose latitude a failed setter
\* left NaN
BearingPoints ==
    { Point(Fin(Deg(la)), Fin(Deg(lo))) : la \in BearingLats, lo \in BearingLons }
        \cup { Point(NaN, Fin(0)) }

InitBearings ==
    /\ points \in { <<p, q>> : p \in BearingPoints, q \in BearingPoints }
    /\ polygon = <<>>
    /\ fn = "none" /\ arg = Idle /\ ret = Idle /\ back = Idle
    /\ lat = NaN /\ lon = NaN /\ thrown = "none"

\* points[1].initialBearingTo(points[2])
CallInitialBearingTo ==
    /\ fn = "none" /\ Len(points) = 2
    /\ fn' = "initialBearingTo" /\ ret' \in InitialBearings(points[1], points[2])
    /\ UNCHANGED <<lat, lon, thrown, arg, back, points, polygon>>

\* points[1].finalBearingTo(points[2])
CallFinalBearingTo ==
    /\ fn = "none" /\ Len(points) = 2
    /\ fn' = "finalBearingTo" /\ ret' \in FinalBearings(points[1], points[2])
    /\ UNCHANGED <<lat, lon, thrown, arg, back, points, polygon>>

\* points[1].rhumbBearingTo(points[2])
CallRhumbBearingTo ==
    /\ fn = "none" /\ Len(points) = 2
    /\ fn' = "rhumbBearingTo" /\ ret' = rhumbBearingTo(points[1], points[2])
    /\ UNCHANGED <<lat, lon, thrown, arg, back, points, polygon>>

NextBearings == CallInitialBearingTo \/ CallFinalBearingTo \/ CallRhumbBearingTo

SpecBearings == InitBearings /\ [][NextBearings]_vars

(***************************** claims on the bearings ***********************)

\* two points whose latitudes and longitudes are equal numbers
Coincident(p, q) == AllFinite(p, q) /\ p.lat = q.lat /\ p.lon = q.lon

BearingCalls == {"initialBearingTo", "finalBearingTo", "rhumbBearingTo"}

C20_ExceptAtSouthPole ==
    (/\ fn \in BearingCalls /\ AllFinite(points[1], points[2])
     /\ ~(/\ fn = "rhumbBearingTo"
          /\ points[1].lat = Fin(Deg(-90)) /\ points[2].lat = Fin(Deg(-90)))) =>
        /\ Coincident(points[1], points[2]) => ret = NaN
        /\ ~Coincident(points[1], points[2]) =>
               IsFin(ret) /\ 0 <= ret.v /\ ret.v < Deg(360)

(***************************** LatLonSpherical.areaOf ***********************)

\* the instances an array of indices stands for
Vertices(pts, poly) == [i \in 1..Len(poly) |-> pts[poly[i]]]

\* a ring that gets polygon[0] pushed whether it is closed or not
RingAlwaysPushed(pts, poly) == Append(poly, poly[1])

\* const closed = polygon[0].equals(polygon[polygon.length-1])
IsClosed(pts, poly) == equals(pts[poly[1]], pts[poly[Len(poly)]])

\* if (!closed) polygon.push(polygon[0]): the array the loops run over
Ring(pts, poly) == IF IsClosed(pts, poly) THEN poly ELSE Append(poly, poly[1])

\* the array as the loops saw it, with nothing popped
LeftAsPushed(pts, poly) == Ring(pts, poly)

\* if (!closed) polygon.pop(): the array left to the caller
Restored(pts, poly) ==
    LET ring == Ring(pts, poly)
    IN  IF IsClosed(pts, poly) THEN ring ELSE SubSeq(ring, 1, Len(ring) - 1)

\* E = 2 atan2(tan(dlambda/2) (tan(phi1/2) + tan(phi2/2)), 1 + tan(phi1/2) tan(phi2/2)),
\* in ticks of a degree
EdgeExcess(p, q) ==
    LET t1 == Tan(p.lat.v \div 2)
        t2 == Tan(q.lat.v \div 2)
        td == Tan((q.lon.v - p.lon.v) \div 2)
    IN  2 * Atan2(Times(td, t1 + t2), TrigScale + Times(t1, t2))

\* for (let v=0; v<nVertices; v++) S += E, over the edges from..nVertices
RECURSIVE SumExcess(_, _)
SumExcess(ring, from) ==
    IF from >= Len(ring) THEN 0
    ELSE EdgeExcess(ring[from], ring[from + 1]) + SumExcess(ring, from + 1)

\* (a - b + 540) % 360 - 180
Turn(a, b) == JsRem(a.v - b.v + Deg(540), Deg(360)) - Deg(180)

\* p.finalBearingTo(q)
finalBearingTo(p, q) == wrap360(NumAdd(initialBearingTo(q, p), Fin(Deg(180))))

\* the loop of isPoleEnclosedBy from edge v on: the two turns of each edge
RECURSIVE SumTurns(_, _, _)
SumTurns(p, v, prevBrng) ==
    IF v >= Len(p) THEN Turn(initialBearingTo(p[1], p[2]), prevBrng)
    ELSE LET initBrng == initialBearingTo(p[v], p[v + 1])
             finalBrng == finalBearingTo(p[v], p[v + 1])
         IN  Turn(initBrng, prevBrng) + Turn(finalBrng, initBrng)
                 + SumTurns(p, v + 1, finalBrng)

\* a bearing of the ring is NaN: the sum of the turns is NaN then
SomeBearingIsNaN(p) ==
    \E v \in 1..(Len(p) - 1) : ~IsFin(initialBearingTo(p[v], p[v + 1]))
                                  \/ ~IsFin(finalBearingTo(p[v], p[v + 1]))

\* isPoleEnclosedBy(p): Math.abs(sum) < 90, which no NaN satisfies
isPoleEnclosedBy(p) ==
    /\ ~SomeBearingIsNaN(p)
    /\ Abs(SumTurns(p, 1, initialBearingTo(p[1], p[2]))) < Deg(90)

\* areaOf without the Math.abs of its last step
AreaOfSigned(pts, poly, radius) ==
    IF poly = <<>> THEN Throw("TypeError")
    ELSE IF Len(Ring(pts, poly)) = 1 THEN Throw("TypeError")
    ELSE LET ring == Vertices(pts, Ring(pts, poly))
             S == SumExcess(ring, 1)
             excess == IF isPoleEnclosedBy(ring) THEN Abs(S) - Deg(360) ELSE S
         IN  Fin(excess * radius * radius)

\* LatLonSpherical.areaOf(polygon, radius): the area in units of
\* radius^2 times a tick of a degree of solid angle, or what it throws:
\* polygon[0] is undefined for an empty array, and with a single vertex
\* isPoleEnclosedBy passes p[1], undefined, to initialBearingTo
areaOf(pts, poly, radius) ==
    IF poly = <<>> THEN Throw("TypeError")
    ELSE IF Len(Ring(pts, poly)) = 1 THEN Throw("TypeError")
    ELSE LET ring == Vertices(pts, Ring(pts, poly))
             S == SumExcess(ring, 1)
             excess == IF isPoleEnclosedBy(ring) THEN Abs(S) - Deg(360) ELSE S
         IN  Fin(Abs(excess * radius * radius))

AreaLats == {-30, 0, 60}
AreaLons == {-120, 0, 30, 120}
AreaVertices == { Point(Fin(Deg(la)), Fin(Deg(lo))) : la \in AreaLats, lo \in AreaLons }
MaxVertices == 3
Radii == {1, 2}

\* a turn within a degree of 180 or -180: rounding decides its sign, and
\* with it the sum of isPoleEnclosedBy
Straight(a, b) == Abs(Abs(Turn(a, b)) - Deg(180)) < Deg(1)

\* no turn of the closed ring p is that near to 180 degrees: not along an
\* edge, and not at a vertex (which three vertices on one great circle, and
\* the two ends of a ring of two vertices, would have)
Resolved(p) ==
    \A v \in 1..(Len(p) - 1) :
        LET next == IF v = Len(p) - 1 THEN 1 ELSE v + 1
        IN  /\ ~Straight(finalBearingTo(p[v], p[v + 1]), initialBearingTo(p[v], p[v + 1]))
            /\ ~Straight(initialBearingTo(p[next], p[next + 1]),
                         finalBearingTo(p[v], p[v + 1]))

\* arrays of up to MaxVertices distinct instances at distinct places, whose
\* ring is resolved
VertexLists ==
    UNION { { f \in [1..n -> AreaVertices] :
                /\ \A i, j \in 1..n : i # j => f[i] # f[j]
                /\ n >= 2 => Resolved(Append(f, f[1])) }
            : n \in 0..MaxVertices }

\* the caller passes the vertices in order, with or without the first one
\* again at the end
InitArea ==
    /\ points \in VertexLists
    /\ polygon \in { [i \in 1..Len(points) |-> i] }
                      \cup (IF points = <<>> THEN {}
                            ELSE { Append([i \in 1..Len(points) |-> i], 1) })
    /\ arg \in [polygon : {polygon}, radius : Radii]
    /\ fn = "none" /\ ret = Idle /\ back = Idle
    /\ lat = NaN /\ lon = NaN /\ thrown = "none"

\* LatLonSpherical.areaOf(polygon, radius); a throw leaves the array as it
\* is at that moment (nothing has been pushed when either throw happens
\* with an empty array, and a single vertex is closed)
CallAreaOf ==
    /\ fn = "none" /\ arg.polygon = polygon
    /\ fn' = "areaOf"
    /\ ret' = areaOf(points, polygon, arg.radius)
    /\ polygon' = IF polygon = <<>> THEN polygon ELSE Restored(points, polygon)
    /\ UNCHANGED <<lat, lon, thrown, arg, back, points>>

\* after the call on an unclosed array: the call on a copy closed by hand
CallAreaOfClosed ==
    /\ fn = "areaOf" /\ polygon # <<>> /\ ~IsClosed(points, polygon)
    /\ fn' = "areaOf(closed)"
    /\ back' = areaOf(points, Append(polygon, polygon[1]), arg.radius)
    /\ UNCHANGED <<lat, lon, thrown, arg, ret, points, polygon>>

NextArea == CallAreaOf \/ CallAreaOfClosed

SpecArea == InitArea /\ [][NextArea]_vars

(***************************** claims on areaOf *****************************)

Edges(ring) == [i \in 1..(Len(ring) - 1) |-> <<ring[i], ring[i + 1]>>]

Ref(i) == [k |-> "ref", id |-> i]

\* what an operation leaves behind: the instances there are, and what it
\* returns
Yield(pts, r) == [points |-> pts, ret |-> r]

\* new LatLonSpherical(la, lo): one more instance, or a TypeError
New(pts, la, lo) ==
    IF isNaN(la) \/ isNaN(lo) THEN Yield(pts, Throw("TypeError"))
    ELSE Yield(Append(pts, Point(wrap90(ToNumber(la)), wrap180(ToNumber(lo)))),
               Ref(Len(pts) + 1))

\* The doubles that the trigonometry of an operation may give, in degrees
\* or in metres.  Which of them it gives is not followed below: what is
\* followed is what the operation reads, writes, creates and returns.
Computed == {Fin(Deg(45)), Fin(Deg(200)), NaN}

\* new LatLonSpherical(lat, lon) on a computed lat and lon
ComputedPoints(pts) == { New(pts, la, lo) : la \in Computed, lo \in Computed }

\* a computed number returned as it is
ComputedNumbers(pts) == { Yield(pts, x) : x \in Computed }

\* points[i].distanceTo(points[j], radius)
distanceTo(pts, i, j, radius) ==
    IF isNaN(radius) THEN {Yield(pts, Throw("TypeError"))}
    ELSE ComputedNumbers(pts)

\* points[i].midpointTo(points[j])
midpointTo(pts, i, j) == ComputedPoints(pts)

\* an intermediatePointTo whose shortcut hands out the receiver itself
IntermediateSharesReceiver(pts, i, j) ==
    IF equals(pts[i], pts[j]) THEN {Yield(pts, Ref(i))}
    ELSE ComputedPoints(pts)

\* points[i].intermediatePointTo(points[j], fraction)
intermediatePointTo(pts, i, j) ==
    IF equals(pts[i], pts[j]) THEN {New(pts, pts[i].lat, pts[i].lon)}
    ELSE ComputedPoints(pts)

\* points[i].destinationPoint(distance, bearing, radius)
destinationPoint(pts, i) == ComputedPoints(pts)

\* Math.abs(delta12) < Number.EPSILON: so it is for equal coordinates and
\* for two points of one pole; for equal latitudes and longitudes a whole
\* turn apart the rounding residue of sin(pi) falls on either side; no
\* comparison with NaN holds
Coinciding(p, q) ==
    IF ~AllFinite(p, q) \/ p.lat # q.lat THEN {FALSE}
    ELSE IF p.lon = q.lon \/ Abs(p.lat.v) = Deg(90) THEN {TRUE}
    ELSE IF Abs(p.lon.v - q.lon.v) = Deg(360) THEN {TRUE, FALSE}
    ELSE {FALSE}

\* LatLonSpherical.intersection(points[i], brng1, points[j], brng2)
intersection(pts, i, brng1, j, brng2) ==
    IF isNaN(brng1) \/ isNaN(brng2) THEN {Yield(pts, Throw("TypeError"))}
    ELSE UNION { IF c THEN {New(pts, pts[i].lat, pts[i].lon)}
                 ELSE {Yield(pts, Null)} \cup ComputedPoints(pts)
                 : c \in Coinciding(pts[i], pts[j]) }

\* points[i].crossTrackDistanceTo(points[j], points[k], radius)
crossTrackDistanceTo(pts, i, j, k) ==
    IF equals(pts[i], pts[j]) THEN {Yield(pts, Fin(0))}
    ELSE ComputedNumbers(pts)

\* points[i].alongTrackDistanceTo(points[j], points[k], radius)
alongTrackDistanceTo(pts, i, j, k) ==
    IF equals(pts[i], pts[j]) THEN {Yield(pts, Fin(0))}
    ELSE ComputedNumbers(pts)

\* LatLonSpherical.crossingParallels(points[i], points[j], latitude)
crossingParallels(pts, i, j) ==
    IF equals(pts[i], pts[j]) THEN {Yield(pts, Null)}
    ELSE {Yield(pts, Null)}
             \cup { Yield(pts, [k |-> "lons", lon1 |-> wrap180(a), lon2 |-> wrap180(b)])
                    : a \in Computed, b \in Computed }

\* points[i].rhumbDistanceTo(points[j], radius)
rhumbDistanceTo(pts, i, j) == ComputedNumbers(pts)

\* points[i].rhumbDestinationPoint(distance, bearing, radius)
rhumbDestinationPoint(pts, i) == ComputedPoints(pts)

\* points[i].rhumbMidpointTo(points[j])
rhumbMidpointTo(pts, i, j) == ComputedPoints(pts)

\* points[i].toGeoJSON()
toGeoJSON(pts, i) ==
    Yield(pts, [k |-> "object", type |-> "Point",
                coordinates |-> <<pts[i].lon, pts[i].lat>>])

\* x.toFixed(dp) for any number x
SignedFixed(x, dp) ==
    IF x.k = "nan" THEN <<"N", "a", "N">>
    ELSE IF x.v < 0 THEN <<"-">> \o toFixed(Fin(-x.v), dp)
    ELSE toFixed(x, dp)

\* deg < 0
Negative(deg) == IsFin(ToNumber(deg)) /\ ToNumber(deg).v < 0

\* Dms.toLat(deg, format, dp)
toLat(deg, format, dp) ==
    LET la == toDms(wrap90(ToNumber(deg)), format, dp)
    IN  IF la = Null THEN Str(<<"endash">>)
        ELSE Str(Tail(la.s) \o dmsSeparator
                     \o (IF Negative(deg) THEN <<"S">> ELSE <<"N">>))

\* Dms.toLon(deg, format, dp)
toLon(deg, format, dp) ==
    LET lo == toDms(wrap180(ToNumber(deg)), format, dp)
    IN  IF lo = Null THEN Str(<<"endash">>)
        ELSE Str(lo.s \o dmsSeparator
                     \o (IF Negative(deg) THEN <<"W">> ELSE <<"E">>))

\* points[i].toString(format, dp)
toString(pts, i, format, dp) ==
    IF format \notin {"d", "dm", "dms", "n"} THEN Yield(pts, Throw("RangeError"))
    ELSE IF format = "n"
    THEN LET places == IF dp = Undefined THEN 4 ELSE dp.v
         IN  Yield(pts, Str(SignedFixed(pts[i].lat, places) \o <<",">>
                                \o SignedFixed(pts[i].lon, places)))
    ELSE Yield(pts, Str(toLat(pts[i].lat, format, dp).s \o <<",", " ">>
                            \o toLon(pts[i].lon, format, dp).s))

GeodesyLats == {-90, 60}
GeodesyLons == {-180, 30, 180}

\* the instances tried: a grid with a pole and the antimeridian on it, and
\* an instance whose latitude a failed setter left NaN
GeodesyPoints ==
    { Point(Fin(Deg(la)), Fin(Deg(lo))) : la \in GeodesyLats, lo \in GeodesyLons }
        \cup { Point(NaN, Fin(0)) }

\* numbers passed for a radius or a bearing
Scalars == {Fin(Deg(1)), NaN}

\* three instances; arg keeps what they are before the call
InitGeodesy ==
    /\ points \in { <<p, q, r>> : p \in GeodesyPoints, q \in GeodesyPoints,
                                  r \in GeodesyPoints }
    /\ arg = points
    /\ polygon = <<>>
    /\ fn = "none" /\ ret = Idle /\ back = Idle
    /\ lat = NaN /\ lon = NaN /\ thrown = "none"

\* the call name leaves the instances and the value of y
Returns(name, y) ==
    /\ fn = "none"
    /\ fn' = name /\ points' = y.points /\ ret' = y.ret
    /\ UNCHANGED <<lat, lon, thrown, arg, back, polygon>>

CallDistanceTo ==
    \E radius \in Scalars : \E y \in distanceTo(points, 1, 2, radius) :
        Returns("distanceTo", y)

GeodesyInitialBearingTo ==
    \E b \in InitialBearings(points[1], points[2]) :
        Returns("initialBearingTo", Yield(points, b))

GeodesyFinalBearingTo ==
    \E b \in FinalBearings(points[1], points[2]) :
        Returns("finalBearingTo", Yield(points, b))

CallMidpointTo ==
    \E y \in midpointTo(points, 1, 2) : Returns("midpointTo", y)

CallIntermediatePointTo ==
    \E y \in intermediatePointTo(points, 1, 2) : Returns("intermediatePointTo", y)

CallDestinationPoint ==
    \E y \in destinationPoint(points, 1) : Returns("destinationPoint", y)

CallIntersection ==
    \E brng1 \in Scalars, brng2 \in Scalars :
        \E y \in intersection(points, 1, brng1, 2, brng2) :
            Returns("intersection", y)

CallCrossTrackDistanceTo ==
    \E y \in crossTrackDistanceTo(points, 1, 2, 3) :
        Returns("crossTrackDistanceTo", y)

CallAlongTrackDistanceTo ==
    \E y \in alongTrackDistanceTo(points, 1, 2, 3) :
        Returns("alongTrackDistanceTo", y)

CallCrossingParallels ==
    \E y \in crossingParallels(points, 1, 2) : Returns("crossingParallels", y)

CallRhumbDistanceTo ==
    \E y \in rhumbDistanceTo(points, 1, 2) : Returns("rhumbDistanceTo", y)

GeodesyRhumbBearingTo ==
    Returns("rhumbBearingTo", Yield(points, rhumbBearingTo(points[1], points[2])))

CallRhumbDestinationPoint ==
    \E y \in rhumbDestinationPoint(points, 1) : Returns("rhumbDestinationPoint", y)

CallRhumbMidpointTo ==
    \E y \in rhumbMidpointTo(points, 1, 2) : Returns("rhumbMidpointTo", y)

CallEquals ==
    Returns("equals", Yield(points, Bool(equals(points[1], points[2]))))

CallToGeoJSON == Returns("toGeoJSON", toGeoJSON(points, 1))

CallToString ==
    \E format \in {"d", "dms", "n", "x"}, dp \in {Undefined, Fin(2)} :
        Returns("toString", toString(points, 1, format, dp))

NextGeodesy ==
    \/ CallDistanceTo
    \/ GeodesyInitialBearingTo
    \/ GeodesyFinalBearingTo
    \/ CallMidpointTo
    \/ CallIntermediatePointTo
    \/ CallDestinationPoint
    \/ CallIntersection
    \/ CallCrossTrackDistanceTo
    \/ CallAlongTrackDistanceTo
    \/ CallCrossingParallels
    \/ CallRhumbDistanceTo
    \/ GeodesyRhumbBearingTo
    \/ CallRhumbDestinationPoint
    \/ CallRhumbMidpointTo
    \/ CallEquals
    \/ CallToGeoJSON
    \/ CallToString

SpecGeodesy == InitGeodesy /\ [][NextGeodesy]_vars

(***************************** claims on the geodesy operations *************)

\* the operations that return a point
PointCalls ==
    {"midpointTo", "intermediatePointTo", "destinationPoint", "intersection",
     "rhumbDestinationPoint", "rhumbMidpointTo"}

\* C16: no geodesy operation changes the lat or lon of its receiver or of
\* a point passed to it: after the call each instance that was there has
\* the coordinates it had.  A point that an operation returns is an
\* instance that was not there before the call, in the coincident-point
\* shortcuts of intermediatePointTo and intersection too.
C16_ReadsOnlyAndYieldsNew ==
    fn # "none" =>
        /\ Len(points) >= Len(arg)
        /\ SubSeq(points, 1, Len(arg)) = arg
        /\ ret.k = "ref" => /\ fn \in PointCalls
                            /\ Len(arg) < ret.id /\ ret.id <= Len(points)
        /\ ret.k # "ref" => points = arg

\* the shortcut of intersection, taken for two instances of the south pole
\* that differ in longitude: the point returned is a fourth instance with
\* the coordinates of the first
C16_Witness ==
    /\ fn = "intersection"
    /\ arg[1] = Point(Fin(Deg(-90)), Fin(Deg(30)))
    /\ arg[2] = Point(Fin(Deg(-90)), Fin(Deg(180)))
    /\ ret = Ref(4) /\ Len(points) = 4
    /\ points[4] = arg[1] /\ points[1] = arg[1]

(***************************** finalBearingTo and its reverse ***************)

\* p.initialBearingTo(q), r being the bearing that the rounding residues
\* give where they decide it: the same doubles give the same bearing at
\* every call
BearingGiven(r, p, q) ==
    IF InitialBearings(p, q) = ResidueBearings THEN r ELSE initialBearingTo(p, q)

\* a final bearing got from the forward bearing of the same pair
FinalFromForward(r, p, q) == wrap360(NumAdd(BearingGiven(r, p, q), Fin(Deg(180))))

\* p.finalBearingTo(q): point.initialBearingTo(this) + 180, wrapped
FinalGiven(r, p, q) == wrap360(NumAdd(BearingGiven(r, q, p), Fin(Deg(180))))

\* two instances, and in arg the bearing of the residues
InitReverse ==
    /\ points \in { <<p, q>> : p \in BearingPoints, q \in BearingPoints }
    /\ arg \in ResidueBearings
    /\ polygon = <<>>
    /\ fn = "none" /\ ret = Idle /\ back = Idle
    /\ lat = NaN /\ lon = NaN /\ thrown = "none"

\* points[1].finalBearingTo(points[2])
CallFinalGiven ==
    /\ fn = "none"
    /\ fn' = "finalBearingTo" /\ ret' = FinalGiven(arg, points[1], points[2])
    /\ UNCHANGED <<lat, lon, thrown, arg, back, points, polygon>>

\* then points[2].initialBearingTo(points[1])
CallInitialOfReverse ==
    /\ fn = "finalBearingTo"
    /\ fn' = "initialBearingTo" /\ back' = BearingGiven(arg, points[2], points[1])
    /\ UNCHANGED <<lat, lon, thrown, arg, ret, points, polygon>>

NextReverse == CallFinalGiven \/ CallInitialOfReverse

SpecReverse == InitReverse /\ [][NextReverse]_vars

\* C21: A.finalBearingTo(B) is wrap360(B.initialBearingTo(A) + 180), NaN
\* when that bearing is NaN.
C21_FinalIsReverseTurned ==
    fn = "initialBearingTo" => ret = wrap360(NumAdd(back, Fin(Deg(180))))

\* from (0, 0) to (60, 30) the reverse bearing is above 180 and the final
\* bearing is it less 180
C21_Witness ==
    /\ fn = "initialBearingTo"
    /\ points[1] = Point(Fin(0), Fin(0))
    /\ points[2] = Point(Fin(Deg(60)), Fin(Deg(30)))
    /\ IsFin(back) /\ back.v > Deg(180)
    /\ ret = Fin(back.v - Deg(180))

(***************************** LatLonSpherical.distanceTo *******************)

\* the whole number nearest below the root of n, looked for in lo..hi
RECURSIVE RootIn(_, _, _)
RootIn(n, lo, hi) ==
    IF lo >= hi THEN lo
    ELSE LET mid == (lo + hi + 1) \div 2
         IN  IF mid * mid <= n THEN RootIn(n, mid, hi) ELSE RootIn(n, lo, mid - 1)

\* Math.sqrt of a scaled value in [0, 1]
Sqrt(x) == RootIn(x * TrigScale, 0, TrigScale)

\* a haversine with the square of cos(phi1) for cos(phi1) cos(phi2)
HaversineOfStart(p, q) ==
    LET s1 == Sin((q.lat.v - p.lat.v) \div 2)
        s2 == Sin((q.lon.v - p.lon.v) \div 2)
    IN  Times(s1, s1) + Times(Times(Times(Cos(p.lat.v), Cos(p.lat.v)), s2), s2)

\* a = sin(dphi/2) sin(dphi/2) + cos(phi1) cos(phi2) sin(dlambda/2) sin(dlambda/2)
Haversine(p, q) ==
    LET s1 == Sin((q.lat.v - p.lat.v) \div 2)
        s2 == Sin((q.lon.v - p.lon.v) \div 2)
    IN  Times(s1, s1) + Times(Times(Times(Cos(p.lat.v), Cos(q.lat.v)), s2), s2)

\* two points for which a is 1 in exact arithmetic
Antipodal(p, q) ==
    AllFinite(p, q) /\ p.lat.v = -q.lat.v /\ Abs(p.lon.v - q.lon.v) = Deg(180)

\* p.distanceTo(q, radius).  For antipodal points the rounding of the sum
\* a decides: over tells that it comes out above 1, and then
\* Math.sqrt(1 - a) is NaN.  The result is in 1/TrigScale of the unit of
\* the radius.
DistanceGiven(over, p, q, radius) ==
    IF isNaN(radius) THEN Throw("TypeError")
    ELSE IF ~AllFinite(p, q) THEN NaN
    ELSE IF Antipodal(p, q)
    THEN (IF over THEN NaN ELSE Fin(ToNumber(radius).v * toRadians(Deg(180))))
    ELSE LET a == Haversine(p, q)
             c == 2 * Atan2(Sqrt(a), Sqrt(TrigScale - a))
         IN  Fin(ToNumber(radius).v * toRadians(c))

\* the radii passed: numbers of units, and what is no number
DistanceRadii == {[k |-> "fin", v |-> 1], [k |-> "fin", v |-> 6371], NaN}

\* two instances with numbers for coordinates; arg holds the radius and
\* the way the rounding goes
InitDistance ==
    /\ points \in { <<p, q>> : p \in BearingPoints \ {Point(NaN, Fin(0))},
                               q \in BearingPoints \ {Point(NaN, Fin(0))} }
    /\ arg \in [radius : DistanceRadii, over : BOOLEAN]
    /\ polygon = <<>>
    /\ fn = "none" /\ ret = Idle /\ back = Idle
    /\ lat = NaN /\ lon = NaN /\ thrown = "none"

\* points[1].distanceTo(points[2], radius)
CallDistanceGiven ==
    /\ fn = "none"
    /\ fn' = "distanceTo"
    /\ ret' = DistanceGiven(arg.over, points[1], points[2], arg.radius)
    /\ UNCHANGED <<lat, lon, thrown, arg, back, points, polygon>>

\* then points[2].distanceTo(points[1], radius)
CallDistanceBack ==
    /\ fn = "distanceTo"
    /\ fn' = "distanceTo(back)"
    /\ back' = DistanceGiven(arg.over, points[2], points[1], arg.radius)
    /\ UNCHANGED <<lat, lon, thrown, arg, ret, points, polygon>>

NextDistance == CallDistanceGiven \/ CallDistanceBack

SpecDistance == InitDistance /\ [][NextDistance]_vars

\* C22: for a radius that is a number, A.distanceTo(B) and B.distanceTo(A)
\* return the same value, and the distance between two instances of the
\* same coordinates is 0.
C22_DistanceSymmetric ==
    (fn = "distanceTo(back)" /\ IsFin(arg.radius)) =>
        /\ ret = back
        /\ Coincident(points[1], points[2]) => ret = Fin(0)

\* from (0, 0) to (60, 30) and back with radius 6371: the same distance,
\* between a sixth and a half of the circumference
C22_Witness ==
    /\ fn = "distanceTo(back)" /\ arg.radius.v = 6371
    /\ points[1] = Point(Fin(0), Fin(0))
    /\ points[2] = Point(Fin(Deg(60)), Fin(Deg(30)))
    /\ IsFin(ret) /\ ret = back
    /\ ret.v > 6371 * TrigScale /\ ret.v < 2 * 6371 * TrigScale

(***************************** Math.sin, cos, asin, acos of any angle *******)

\* Math.sin of an angle of a ticks: the angle is a multiple a0 of 15
\* degrees and a rest d of at most 7.5 degrees, and
\* sin(a0 + d) = sin a0 cos d + cos a0 sin d with cos d = 1 - d^2/2 and
\* sin d = d - d^3/6 (exact where d = 0)
SinOf(a) ==
    LET a0 == ((a + Deg(15) \div 2) \div Deg(15)) * Deg(15)
        d == toRadians(a - a0)
        sind == d - Times(Times(d, d), d) \div 6
        cosd == TrigScale - Times(d, d) \div 2
    IN  Times(Sin(a0), cosd) + Times(Cos(a0), sind)

\* Math.cos
CosOf(a) == SinOf(a + Deg(90))

\* Math.min(Math.max(x, -1), 1)
Clamp(x) == IF x < -TrigScale THEN -TrigScale ELSE IF x > TrigScale THEN TrigScale ELSE x

\* Math.acos of a scaled value in [-1, 1], in ticks
Acos(c) == Atan2(Sqrt(TrigScale - Times(c, c)), c)

\* Math.asin of a scaled value in [-1, 1], in ticks
Asin(s) == Atan2(s, Sqrt(TrigScale - Times(s, s)))

(***************************** LatLonSpherical.intersection *****************)

\* a/b of two scaled values, b # 0
Over(a, b) == Quot(a * TrigScale, b)

\* delta12 = 2 asin(sqrt(a)), in ticks
Delta12(p1, p2) == 2 * Asin(Sqrt(Haversine(p1, p2)))

\* acos of the clamped (sin(phi2) - sin(phi1) cos(delta12)) / (sin(delta12) cos(phi1)):
\* theta_a for (p1, p2), theta_b for (p2, p1)
ThetaAB(p1, p2) ==
    LET d12 == Delta12(p1, p2)
    IN  Acos(Clamp(Over(Sin(p2.lat.v) - Times(Sin(p1.lat.v), CosOf(d12)),
                        Times(SinOf(d12), Cos(p1.lat.v)))))

\* alpha1 = theta13 - theta12 and alpha2 = theta21 - theta23, in ticks
RelativeAngles(p1, brng1, p2, brng2) ==
    LET eastward == SinOf(p2.lon.v - p1.lon.v) > 0       \* Math.sin(lambda2 - lambda1) > 0
        theta12 == IF eastward THEN ThetaAB(p1, p2) ELSE Deg(360) - ThetaAB(p1, p2)
        theta21 == IF eastward THEN Deg(360) - ThetaAB(p2, p1) ELSE ThetaAB(p2, p1)
    IN  <<ToNumber(brng1).v - theta12, theta21 - ToNumber(brng2).v>>

\* Math.sin(alpha) and its sign.  The sine of 0 is 0.  No double is a
\* multiple of pi but 0, so at 180, 360, ... degrees the sine is a rounding
\* residue: next to nothing, not 0, of one sign or the other.
SinesAt(alpha) ==
    IF alpha = 0 THEN {[v |-> 0, s |-> 0]}
    ELSE IF alpha % Deg(180) = 0 THEN {[v |-> 0, s |-> -1], [v |-> 0, s |-> 1]}
    ELSE {[v |-> SinOf(alpha), s |-> IF SinOf(alpha) < 0 THEN -1 ELSE 1]}

\* Math.atan2 of two rounding residues: some angle
ResidueAngles == {0, Deg(90), Deg(180), Deg(-90)}

\* delta13 = atan2(sin(delta12) sin(alpha1) sin(alpha2), cos(alpha2) + cos(alpha1) cos(alpha3))
Delta13s(d12, alpha, s1, s2) ==
    LET cosalpha3 == -Times(CosOf(alpha[1]), CosOf(alpha[2]))
                        + Times(Times(s1.v, s2.v), CosOf(d12))
        y == Times(Times(SinOf(d12), s1.v), s2.v)
        x == CosOf(alpha[2]) + Times(CosOf(alpha[1]), cosalpha3)
    IN  IF s1.v = 0 /\ s2.v = 0 /\ s1.s # 0 /\ s2.s # 0 THEN ResidueAngles
        ELSE {Atan2(y, x)}

\* the point at delta13 from p1 on the bearing theta13, made by the constructor
PointAt(pts, p1, theta13, d13) ==
    LET sinphi3 == Clamp(Times(SinOf(p1.lat.v), CosOf(d13))
                             + Times(Times(CosOf(p1.lat.v), SinOf(d13)), CosOf(theta13)))
        dlambda13 == Atan2(Times(Times(SinOf(theta13), SinOf(d13)), CosOf(p1.lat.v)),
                           CosOf(d13) - Times(SinOf(p1.lat.v), sinphi3))
    IN  New(pts, Fin(Asin(sinphi3)), Fin(p1.lon.v + dlambda13))

\* LatLonSpherical.intersection(points[i], brng1, points[j], brng2), the
\* doubles followed
IntersectionOf(pts, i, brng1, j, brng2) ==
    IF isNaN(brng1) \/ isNaN(brng2) THEN {Yield(pts, Throw("TypeError"))}
    ELSE IF TRUE \in Coinciding(pts[i], pts[j])
    THEN {New(pts, pts[i].lat, pts[i].lon)}
    ELSE LET alpha == RelativeAngles(pts[i], brng1, pts[j], brng2)
             d12 == Delta12(pts[i], pts[j])
         IN  UNION { IF s1.s = 0 /\ s2.s = 0 THEN {Yield(pts, Null)}
                     ELSE IF s1.s * s2.s < 0 THEN {Yield(pts, Null)}
                     ELSE { PointAt(pts, pts[i], ToNumber(brng1).v, d13)
                            : d13 \in Delta13s(d12, alpha, s1, s2) }
                     : s1 \in SinesAt(alpha[1]), s2 \in SinesAt(alpha[2]) }

CrossingLats == {0, 60}
CrossingLons == {-30, 0, 30, 90}
CrossingBearings == {0, 45, 90, 180, 270, 300}

\* an angle that is a multiple of 180 degrees or more than a degree off one
Clear(alpha) == alpha % Deg(180) = 0
                    \/ (alpha % Deg(180) > Deg(1) /\ alpha % Deg(180) < Deg(179))

\* the calls tried: two instances off the poles and less than half a turn
\* apart, and bearings whose relative angles are clear
CrossingCalls ==
    { c \in [p1 : { Point(Fin(Deg(la)), Fin(Deg(lo))) : la \in CrossingLats, lo \in CrossingLons },
             p2 : { Point(Fin(Deg(la)), Fin(Deg(lo))) : la \in CrossingLats, lo \in CrossingLons },
             brng1 : { Fin(Deg(b)) : b \in CrossingBearings },
             brng2 : { Fin(Deg(b)) : b \in CrossingBearings }] :
        equals(c.p1, c.p2)
            \/ (/\ Clear(RelativeAngles(c.p1, c.brng1, c.p2, c.brng2)[1])
                /\ Clear(RelativeAngles(c.p1, c.brng1, c.p2, c.brng2)[2])) }

InitCrossing ==
    /\ arg \in CrossingCalls
    /\ points = <<arg.p1, arg.p2>>
    /\ polygon = <<>>
    /\ fn = "none" /\ ret = Idle /\ back = Idle
    /\ lat = NaN /\ lon = NaN /\ thrown = "none"

\* LatLonSpherical.intersection(points[1], brng1, points[2], brng2)
CallIntersectionOf ==
    /\ fn = "none"
    /\ \E y \in IntersectionOf(points, 1, arg.brng1, 2, arg.brng2) :
           /\ fn' = "intersection" /\ points' = y.points /\ ret' = y.ret
    /\ UNCHANGED <<lat, lon, thrown, arg, back, polygon>>

NextCrossing == CallIntersectionOf

SpecCrossing == InitCrossing /\ [][NextCrossing]_vars

(***************************** claims on intersection ***********************)

\* the relative angles of the call in arg
CallAngles == RelativeAngles(arg.p1, arg.brng1, arg.p2, arg.brng2)

\* both paths lie along the great circle through p1 and p2: the sines of
\* both relative angles are zero
BothSinesZero == CallAngles[1] % Deg(180) = 0 /\ CallAngles[2] % Deg(180) = 0

\* the sines of the relative angles have opposite signs
OppositeSines == SinOf(CallAngles[1]) * SinOf(CallAngles[2]) < 0

StraightAngle(alpha) == alpha # 0 /\ alpha % Deg(180) = 0

\* The same holds of the calls in which no relative angle is 180, 360, ...
\* degrees.
C23_ExceptStraightAngles ==
    (/\ fn = "intersection"
     /\ equals(arg.p1, arg.p2)
            \/ (~StraightAngle(CallAngles[1]) /\ ~StraightAngle(CallAngles[2]))) =>
        /\ ret.k # "throw"
        /\ IF equals(arg.p1, arg.p2) THEN ret = Ref(3) /\ points[3] = arg.p1
           ELSE IF BothSinesZero \/ OppositeSines THEN ret = Null
           ELSE ret = Ref(3) /\ IsFin(points[3].lat) /\ IsFin(points[3].lon)

(***************************** LatLonSpherical.parse ************************)

\* an object with the properties that LatLonSpherical.parse reads; a
\* property left out is undefined, and coordinates left out are <<>>
Object(type, coordinates, la, latitude, lo, lng, longitude) ==
    [k |-> "object", type |-> type, coordinates |-> coordinates,
     lat |-> la, latitude |-> latitude, lon |-> lo, lng |-> lng, longitude |-> longitude]

\* { type: 'Point', coordinates: [lo, la] }
GeoJSON(lo, la) ==
    Object(Str(<<"P", "o", "i", "n", "t">>), <<lo, la>>,
           Undefined, Undefined, Undefined, Undefined, Undefined)

\* ll.type == 'Point' && Array.isArray(ll.coordinates): an object without
\* coordinates holds the empty sequence there
IsPointArray(ll) ==
    /\ ll.type.k = "str" /\ ll.type.s = <<"P", "o", "i", "n", "t">>
    /\ ll.coordinates # <<>>

\* x != undefined
Given(x) == x.k \notin {"undefined", "null"}

\* [ lat, lon ] = s.split(','): the text before the first comma and the text
\* between the first and the second, undefined where there is none
CommaPair(s) ==
    LET i == IndexOf(s, ",")
        rest == SubSeq(s, i + 1, Len(s))
        j == IndexOf(rest, ",")
    IN  IF i = 0 THEN <<Str(s), Undefined>>
        ELSE <<Str(SubSeq(s, 1, i - 1)),
               Str(IF j = 0 THEN rest ELSE SubSeq(rest, 1, j - 1))>>

\* the lat and lon that the call reads off its arguments, as they are
\* before any conversion
Denoted(args) ==
    IF Len(args) = 2 THEN <<args[1], args[2]>>
    ELSE IF Len(args) = 1 /\ args[1].k = "str" THEN CommaPair(args[1].s)
    ELSE IF Len(args) = 1 /\ args[1].k = "object"
    THEN LET ll == args[1]
         IN  IF IsPointArray(ll)
             THEN <<ll.coordinates[2], ll.coordinates[1]>>
             ELSE <<IF Given(ll.lat) THEN ll.lat
                    ELSE IF Given(ll.latitude) THEN ll.latitude ELSE Undefined,
                    IF Given(ll.lon) THEN ll.lon
                    ELSE IF Given(ll.lng) THEN ll.lng
                    ELSE IF Given(ll.longitude) THEN ll.longitude ELSE Undefined>>
    ELSE <<Undefined, Undefined>>

\* is the one argument a GeoJSON point
IsGeoJSON(args) ==
    Len(args) = 1 /\ args[1].k = "object" /\ IsPointArray(args[1])

\* the one element of a set of one: a value is worked out once and named
Only(S) == CHOOSE x \in S : TRUE

\* LatLonSpherical.parse(...args): a new instance, or a TypeError
parsePoint(args) ==
    IF Len(args) = 0 THEN Throw("TypeError")
    ELSE IF args[1].k = "null" \/ (Len(args) >= 2 /\ args[2].k = "null") THEN Throw("TypeError")
    ELSE LET raw == Denoted(args)
             converted == Len(args) = 2
                              \/ (Len(args) = 1 /\ args[1].k \in {"str", "object"}
                                      /\ ~IsGeoJSON(args))
         IN  Only({ IF isNaN(la) \/ isNaN(lo) THEN Throw("TypeError")
                    \* new LatLonSpherical(lat, lon)
                    ELSE Point(wrap90(ToNumber(la)), wrap180(ToNumber(lo))) :
                        la \in {IF converted THEN wrap90(parse(raw[1])) ELSE raw[1]},
                        lo \in {IF converted THEN wrap180(parse(raw[2])) ELSE raw[2]} })

\* what is passed for a latitude or a longitude: numbers in and out of
\* range, text that is a number, a compass angle, no angle, and what is
\* no number or text
Coordinates ==
    { Fin(Deg(52)), Fin(Deg(-100)), Fin(Deg(200)),
      Str(<<"5", "2">>), Str(<<" ", "7", ".", "5">>), Str(<<"5", "2", "deg", "3", "0", "prime", "S">>),
      Str(<<"a", "b", "c">>), Str(<<>>),
      NaN, Infinity, Null, Undefined, Bool(TRUE) }

\* the argument lists tried: none, one scalar, two and three scalars, a
\* comma-joined string, keyed objects, a GeoJSON point
PointForms ==
    {<<>>}
        \cup { <<a>> : a \in Coordinates }
        \cup { <<a, b>> : a \in Coordinates, b \in Coordinates }
        \cup { <<a, b, Fin(0)>> : a \in {Fin(Deg(52))}, b \in Coordinates }
        \cup { <<Str(a.s \o <<",">> \o b.s)>> :
                   a \in { c \in Coordinates : c.k = "str" },
                   b \in { c \in Coordinates : c.k = "str" } }
        \cup { <<Object(Undefined, <<>>, a, Undefined, b, Undefined, Undefined)>> :
                   a \in Coordinates, b \in Coordinates }
        \cup { <<Object(Undefined, <<>>, Undefined, a, Undefined, b, Undefined)>> :
                   a \in Coordinates, b \in Coordinates }
        \cup { <<Object(Undefined, <<>>, Undefined, a, Undefined, Undefined, b)>> :
                   a \in Coordinates, b \in Coordinates }
        \cup { <<GeoJSON(b, a)>> : a \in Coordinates, b \in Coordinates }

InitPoint ==
    /\ arg \in PointForms
    /\ points = <<>> /\ polygon = <<>>
    /\ fn = "none" /\ ret = Idle /\ back = Idle
    /\ lat = NaN /\ lon = NaN /\ thrown = "none"

\* LatLonSpherical.parse(...arg)
CallParsePoint ==
    /\ fn = "none"
    /\ fn' = "parse" /\ ret' = parsePoint(arg)
    /\ UNCHANGED <<lat, lon, thrown, arg, back, points, polygon>>

\* then LatLonSpherical.parse(p.toGeoJSON()) of the point p returned
CallParseGeoJSON ==
    /\ fn = "parse" /\ ret # Throw("TypeError")
    /\ fn' = "parse(toGeoJSON)" /\ back' = parsePoint(<<GeoJSON(ret.lon, ret.lat)>>)
    /\ UNCHANGED <<lat, lon, thrown, arg, ret, points, polygon>>

NextPoint == CallParsePoint \/ CallParseGeoJSON

SpecPoint == InitPoint /\ [][NextPoint]_vars

(***************************** claims on LatLonSpherical.parse **************)

\* the forms that parse recognises
Recognised(args) ==
    \/ Len(args) = 2 /\ args[1].k # "null" /\ args[2].k # "null"
    \/ Len(args) = 1 /\ args[1].k \in {"str", "object"}

\* C25: LatLonSpherical.parse throws a TypeError for no argument, a null
\* argument, one argument that is no string and no object, more than two
\* arguments, and a form whose latitude or longitude does not parse to a
\* number; for a recognised form it returns the point
\* (wrap90(lat), wrap180(lon)), and parse(p.toGeoJSON()) equals p.
C25_ParseForms ==
    /\ fn \in {"parse", "parse(toGeoJSON)"} =>
           LET la == parse(Denoted(arg)[1])
               lo == parse(Denoted(arg)[2])
           IN  IF ~Recognised(arg) \/ isNaN(la) \/ isNaN(lo) THEN ret = Throw("TypeError")
               ELSE ret = Point(wrap90(la), wrap180(lo))
    /\ fn = "parse(toGeoJSON)" => back = ret

\* the coordinates of a GeoJSON point that Number and Dms.parse read alike:
\* finite numbers, and text that is a number
ReadAlike(x) == IsFin(x) \/ (x.k = "str" /\ Trim(x.s) # <<>> /\ IsFin(ToNumber(x)))

\* The same holds of every form but a GeoJSON point whose coordinates are
\* not finite numbers or text that is a number.
C25_ExceptGeoJSONCoordinates ==
    (IsGeoJSON(arg) => ReadAlike(Denoted(arg)[1]) /\ ReadAlike(Denoted(arg)[2])) =>
        /\ fn \in {"parse", "parse(toGeoJSON)"} =>
               LET la == parse(Denoted(arg)[1])
                   lo == parse(Denoted(arg)[2])
               IN  IF ~Recognised(arg) \/ isNaN(la) \/ isNaN(lo)
                   THEN ret = Throw("TypeError")
                   ELSE ret = Point(wrap90(la), wrap180(lo))
        /\ fn = "parse(toGeoJSON)" => back = ret

\* an out-of-range pair given as a keyed object has been parsed to a point,
\* and the point read back from its GeoJSON
C25_Witness ==
    /\ fn = "parse(toGeoJSON)"
    /\ arg = <<Object(Undefined, <<>>, Fin(Deg(-100)), Undefined, Fin(Deg(200)), Undefined, Undefined)>>
    /\ ret = Point(Fin(Deg(-80)), Fin(Deg(-160)))
    /\ back = ret

(***************************** point arguments in literal form **************)

\* x instanceof LatLonSpherical: an instance is the record of its _lat and
\* _lon, every other value carries its kind k
Instance(x) == "k" \notin DOMAIN x

\* if (!(point instanceof LatLonSpherical)) point = LatLonSpherical.parse(point)
Literal(x) == IF Instance(x) THEN x ELSE parsePoint(<<x>>)

\* x.lat, x.lon of an instance (its getters), of an object (its property)
\* and of a string (undefined)
PropLat(x) == IF Instance(x) THEN x.lat ELSE IF x.k = "object" THEN x.lat ELSE Undefined
PropLon(x) == IF Instance(x) THEN x.lon ELSE IF x.k = "object" THEN x.lon ELSE Undefined

\* x.toRadians is a function: toRadians is defined on Number.prototype only
IsNumber(x) == x.k \in {"fin", "nan", "inf"}

\* the operations that open with the line Literal models, on the receiver p
\* and the argument x
equalsGiven(p, x) ==
    Only({ IF q = Throw("TypeError") THEN q ELSE Bool(equals(p, q)) : q \in {Literal(x)} })

initialBearingToGiven(p, x) ==
    Only({ IF q = Throw("TypeError") THEN q ELSE initialBearingTo(p, q) : q \in {Literal(x)} })

finalBearingToGiven(p, x) ==
    Only({ IF q = Throw("TypeError") THEN q ELSE finalBearingTo(p, q) : q \in {Literal(x)} })

rhumbBearingToGiven(p, x) ==
    Only({ IF q = Throw("TypeError") THEN q ELSE rhumbBearingTo(p, q) : q \in {Literal(x)} })

distanceToGiven(p, x, radius) ==
    Only({ IF q = Throw("TypeError") THEN q ELSE DistanceGiven(FALSE, p, q, radius)
           : q \in {Literal(x)} })

\* the longitudes at which the great circle through (la1, lo1) and
\* (la2, lo2) crosses the latitude phi, all in ticks: lines 849-876
CrossingLongitudes(la1, lo1, la2, lo2, phi) ==
    LET dl == lo2 - lo1
        Lons(lm, dli) == [k |-> "lons", lon1 |-> wrap180(Fin(lo1 + lm - dli)),
                                        lon2 |-> wrap180(Fin(lo1 + lm + dli))]
        Crossings(x, y, z, r) ==
            IF z * z > x * x + y * y THEN {Null}
            \* z / Math.sqrt(0) with z = 0 is NaN
            ELSE IF r = 0 THEN {[k |-> "lons", lon1 |-> NaN, lon2 |-> NaN]}
            ELSE UNION { { Lons(lm, dli) : lm \in {Atan2(-y, x)}, dli \in {Acos(c)} }
                         : c \in {Clamp(Over(z, r))} }
    IN  Only(
            UNION { UNION { Crossings(x, y, z, r) : r \in {Sqrt(Times(x, x) + Times(y, y))} } :
                x \in {Times(Times(Times(Sin(la1), Cos(la2)), Cos(phi)), Sin(dl))},
                y \in {Times(Times(Times(Sin(la1), Cos(la2)), Cos(phi)), Cos(dl))
                           - Times(Times(Cos(la1), Sin(la2)), Cos(phi))},
                z \in {Times(Times(Times(Cos(la1), Cos(la2)), Sin(phi)), Sin(dl))} })

\* LatLonSpherical.crossingParallels(point1, point2, latitude): equals is
\* called on point1 as it is given and parses point2 for itself only; lat
\* and lon are then read off both as they are given
crossingParallelsGiven(point1, point2, latitude) ==
    IF ~Instance(point1) THEN Throw("TypeError")
    ELSE LET Crossed(same) ==
                 IF same = Throw("TypeError") THEN same
                 ELSE IF same = Bool(TRUE) THEN Null
                 ELSE IF ~IsNumber(PropLat(point2)) \/ ~IsNumber(PropLon(point2))
                      THEN Throw("TypeError")
                 ELSE IF ~IsFin(PropLat(point2)) \/ ~IsFin(PropLon(point2))
                      THEN [k |-> "lons", lon1 |-> NaN, lon2 |-> NaN]
                 ELSE CrossingLongitudes(point1.lat.v, point1.lon.v,
                                         PropLat(point2).v, PropLon(point2).v, latitude)
         IN  Only({ Crossed(same) : same \in {equalsGiven(point1, point2)} })

\* LatLonSpherical.areaOf(polygon, radius) on vertices as they are given:
\* equals is called on polygon[0] and parses the last vertex for itself
\* only; the loop reads lat and lon off every vertex of the ring;
\* isPoleEnclosedBy calls initialBearingTo and finalBearingTo on every
\* vertex but the last, which those parse
areaOfGiven(vertices, radius) ==
    IF ~Instance(vertices[1]) THEN Throw("TypeError")
    ELSE LET Area(read, parsed) ==
                 LET S == SumExcess(read, 1)
                     excess == IF isPoleEnclosedBy(parsed) THEN Abs(S) - Deg(360) ELSE S
                 IN  Fin(Abs(excess * radius * radius))
             AreaOfRing(same, ring) ==
                 LET n == Len(ring)
                 IN  IF same = Throw("TypeError") THEN same
                     ELSE IF \E v \in 1..n : ~IsNumber(PropLat(ring[v]))
                          THEN Throw("TypeError")
                     ELSE IF \E v \in 1..(n - 1) : ~Instance(ring[v]) THEN Throw("TypeError")
                     ELSE IF isNaN(PropLon(ring[n])) THEN NaN
                     ELSE Only({ Area(read, parsed) :
                                   read \in {[v \in 1..n |->
                                       Point(PropLat(ring[v]), ToNumber(PropLon(ring[v])))]},
                                   parsed \in {[v \in 1..n |-> Literal(ring[v])]} })
             Closed(same) == IF same = Bool(TRUE) THEN vertices
                             ELSE Append(vertices, vertices[1])
         IN  Only(UNION { { AreaOfRing(same, ring) : ring \in {Closed(same)} } :
                              same \in {equalsGiven(vertices[1], vertices[Len(vertices)])} })

\* the places tried, each with its text 'lat,lon', in the order of a
\* triangle
Corners ==
    << [lat |-> 0, lon |-> 0, text |-> <<"0", ",", "0">>],
       [lat |-> 60, lon |-> 30, text |-> <<"6", "0", ",", "3", "0">>],
       [lat |-> -30, lon |-> 120, text |-> <<"-", "3", "0", ",", "1", "2", "0">>] >>

Sites == { Corners[v] : v \in 1..3 }

\* the instance at a place
At(g) == Point(Fin(Deg(g.lat)), Fin(Deg(g.lon)))

\* the forms in which a place is given: an instance, a comma string, an
\* object keyed lat and lon, one keyed latitude and longitude, and a GeoJSON
\* point
FormsOf(g) ==
    { At(g),
      Str(g.text),
      Object(Undefined, <<>>, Fin(Deg(g.lat)), Undefined, Fin(Deg(g.lon)), Undefined, Undefined),
      Object(Undefined, <<>>, Undefined, Fin(Deg(g.lat)), Undefined, Undefined, Fin(Deg(g.lon))),
      GeoJSON(Fin(Deg(g.lon)), Fin(Deg(g.lat))) }

\* the triangle with the vertex at one position in a given form, open or
\* closed by the first vertex in a given form
Polygons ==
    { [v \in 1..3 |-> IF v = at THEN x ELSE At(Corners[v])] :
          at \in 1..3, x \in UNION { FormsOf(g) : g \in Sites } }
        \cup { <<At(Corners[1]), At(Corners[2]), At(Corners[3]), x>> :
                   x \in FormsOf(Corners[1]) }

CrossedLatitudes == {0, 30}

\* a receiver, a first and a second point argument in any form, a latitude
\* and an array of vertices
InitLiteral ==
    /\ arg \in { [receiver |-> At(g), first |-> x, second |-> y,
                  latitude |-> Deg(la), polygon |-> <<>>] :
                     g \in Sites,
                     x \in UNION { FormsOf(h) : h \in Sites },
                     y \in UNION { FormsOf(h) : h \in Sites },
                     la \in CrossedLatitudes }
               \cup { [receiver |-> At(Corners[1]), first |-> At(Corners[1]),
                       second |-> At(Corners[1]), latitude |-> 0, polygon |-> p] :
                         p \in Polygons }
    /\ points = <<>> /\ polygon = <<>>
    /\ fn = "none" /\ ret = Idle /\ back = Idle
    /\ lat = NaN /\ lon = NaN /\ thrown = "none"

\* each action calls the operation with the arguments as they are given,
\* and with the instances that LatLonSpherical.parse makes of them
Called(name, r, b) ==
    /\ fn = "none"
    /\ fn' = name /\ ret' = r /\ back' = b
    /\ UNCHANGED <<lat, lon, thrown, arg, points, polygon>>

LiteralEquals ==
    /\ arg.polygon = <<>>
    /\ \E point \in {Literal(arg.second)} :
           Called("equals", equalsGiven(arg.receiver, arg.second),
                  equalsGiven(arg.receiver, point))

LiteralInitialBearingTo ==
    /\ arg.polygon = <<>>
    /\ \E point \in {Literal(arg.second)} :
           Called("initialBearingTo", initialBearingToGiven(arg.receiver, arg.second),
                  initialBearingToGiven(arg.receiver, point))

LiteralFinalBearingTo ==
    /\ arg.polygon = <<>>
    /\ \E point \in {Literal(arg.second)} :
           Called("finalBearingTo", finalBearingToGiven(arg.receiver, arg.second),
                  finalBearingToGiven(arg.receiver, point))

LiteralRhumbBearingTo ==
    /\ arg.polygon = <<>>
    /\ \E point \in {Literal(arg.second)} :
           Called("rhumbBearingTo", rhumbBearingToGiven(arg.receiver, arg.second),
                  rhumbBearingToGiven(arg.receiver, point))

LiteralDistanceTo ==
    /\ arg.polygon = <<>>
    /\ \E point \in {Literal(arg.second)} :
           Called("distanceTo", distanceToGiven(arg.receiver, arg.second, Fin(6371)),
                  distanceToGiven(arg.receiver, point, Fin(6371)))

LiteralCrossingParallels ==
    /\ arg.polygon = <<>>
    /\ \E point1 \in {Literal(arg.first)}, point2 \in {Literal(arg.second)} :
           Called("crossingParallels",
                  crossingParallelsGiven(arg.first, arg.second, arg.latitude),
                  crossingParallelsGiven(point1, point2, arg.latitude))

LiteralAreaOf ==
    /\ arg.polygon # <<>>
    /\ \E instances \in {[v \in 1..Len(arg.polygon) |-> Literal(arg.polygon[v])]} :
           Called("areaOf", areaOfGiven(arg.polygon, 1), areaOfGiven(instances, 1))

NextLiteral ==
    \/ LiteralEquals
    \/ LiteralInitialBearingTo
    \/ LiteralFinalBearingTo
    \/ LiteralRhumbBearingTo
    \/ LiteralDistanceTo
    \/ LiteralCrossingParallels
    \/ LiteralAreaOf

SpecLiteral == InitLiteral /\ [][NextLiteral]_vars

(***************************** claims on literal forms **********************)

\* C24: every geodesy operation that takes a point argument, with
\* crossingParallels and the vertices of areaOf among them, accepts each
\* form of a point and returns what it returns for the equivalent instance.
C24_FormsAlike == fn # "none" => ret = back

\* The operations that parse their argument do: equals, initialBearingTo,
\* finalBearingTo, rhumbBearingTo, distanceTo.
C24_ParsingOperationsAlike ==
    fn \in {"equals", "initialBearingTo", "finalBearingTo", "rhumbBearingTo", "distanceTo"}
        => ret = back /\ ret # Throw("TypeError")

\* a bearing to a point given as a comma string has been returned
C24_Witness ==
    /\ fn = "initialBearingTo"
    /\ arg.receiver = At(Corners[1])
    /\ arg.second = Str(Corners[2].text)
    /\ IsFin(ret) /\ ret = back

(***************************** operations that take a radius ****************)

\* the greatest common divisor of a >= 0 and b > 0
RECURSIVE Gcd(_, _)
Gcd(a, b) == IF a = 0 THEN b ELSE Gcd(b % a, a)

\* distance / radius, an angle in radians, as ticks of a degree; NaN where
\* the quotient is NaN or infinite (its sine and cosine are NaN then).
\* The quotient is taken in lowest terms to keep the products small.
AngularDistance(distance, radius) ==
    LET d == ToNumber(distance)
        r == ToNumber(radius)
    IN  IF IsFin(d) /\ r.k = "inf" THEN Fin(0)
        ELSE IF ~IsFin(d) \/ ~IsFin(r) \/ r.v = 0 THEN NaN
        ELSE LET g == Gcd(Abs(d.v), Abs(r.v))
             IN  Fin((IF (d.v < 0) = (r.v < 0) THEN 1 ELSE -1)
                         * MulDiv(206265 * 100, Abs(d.v) \div g, Abs(r.v) \div g))

\* p.destinationPoint(distance, bearing, radius): the point that the
\* constructor makes of the computed lat and lon, or the TypeError that it
\* throws for NaN
DestinationGiven(p, distance, bearing, radius) ==
    LET delta == AngularDistance(distance, radius)
        theta == ToNumber(bearing)
    IN  IF ~IsFin(delta) \/ ~IsFin(theta) \/ ~IsFin(p.lat) \/ ~IsFin(p.lon)
        THEN Throw("TypeError")
        ELSE LET made == PointAt(<<>>, p, theta.v, delta.v)
             IN  made.points[1]

\* Math.sqrt of a scaled value up to 20, the root up to 4.5
WideSqrt(x) == RootIn(x * TrigScale, 0, (9 * TrigScale) \div 2)

\* the angular distance along the rhumb line from p to q, as a scaled
\* value in radians: lines 900-914
RhumbAngle(p, q) ==
    LET dphi == toRadians(q.lat.v - p.lat.v)
        raw == Abs(q.lon.v - p.lon.v)
        dlambda == toRadians(IF raw > Deg(180) THEN -(Deg(360) - raw) ELSE raw)
        dpsi == MercatorDifference(p.lat.v, q.lat.v)
        stretch == IF dpsi.k = "inf" THEN 0
                   ELSE IF IsFin(dpsi) /\ dpsi.v # 0 THEN Over(dphi, dpsi.v)
                   ELSE Cos(p.lat.v)
    IN  WideSqrt(Times(dphi, dphi)
                     + Times(Times(stretch, stretch), Times(dlambda, dlambda)))

\* p.rhumbDistanceTo(q, radius), in 1/TrigScale of the unit of the radius
RhumbDistanceGiven(p, q, radius) ==
    LET r == ToNumber(radius)
    IN  IF ~AllFinite(p, q) \/ r.k = "nan" THEN NaN
        ELSE IF r.k = "inf" THEN (IF RhumbAngle(p, q) = 0 THEN NaN ELSE r)
        ELSE Fin(r.v * RhumbAngle(p, q))

\* p.rhumbDestinationPoint(distance, bearing, radius): a NaN angular
\* distance makes the latitude NaN and the constructor throw; what the
\* trigonometry gives otherwise is not followed
RhumbDestinationGiven(p, distance, bearing, radius) ==
    IF ~IsFin(AngularDistance(distance, radius)) \/ ~IsFin(ToNumber(bearing))
    THEN {Throw("TypeError")}
    ELSE { y.ret : y \in ComputedPoints(<<>>) }

\* p.crossTrackDistanceTo(pathStart, pathEnd, radius): 0 for a receiver at
\* the start, before the radius is looked at; then what
\* pathStart.distanceTo(this, R) throws; delta13 is NaN for a radius of 0
\* or Infinity; what the trigonometry gives otherwise is not followed
CrossTrackGiven(p, pathStart, pathEnd, radius) ==
    IF equals(p, pathStart) THEN {Fin(0)}
    ELSE IF isNaN(radius) THEN {Throw("TypeError")}
    ELSE IF ~IsFin(ToNumber(radius)) \/ ToNumber(radius).v = 0 THEN {NaN}
    ELSE Computed

\* p.alongTrackDistanceTo(pathStart, pathEnd, radius): the same opening
AlongTrackGiven(p, pathStart, pathEnd, radius) ==
    IF equals(p, pathStart) THEN {Fin(0)}
    ELSE IF isNaN(radius) THEN {Throw("TypeError")}
    ELSE IF ~IsFin(ToNumber(radius)) \/ ToNumber(radius).v = 0 THEN {NaN}
    ELSE Computed

\* LatLonSpherical.areaOf(polygon, radius) = Math.abs(S * R * R) for any
\* radius
AreaGiven(pts, poly, radius) ==
    LET unit == areaOf(pts, poly, 1)
        r == ToNumber(radius)
    IN  IF unit = Throw("TypeError") THEN unit
        ELSE IF r.k = "nan" THEN NaN
        ELSE IF r.k = "inf" THEN (IF unit.v = 0 THEN NaN ELSE Infinity)
        ELSE Fin(unit.v * r.v * r.v)

\* the radii passed: what is no number, and a number of thousands of
\* kilometres
GivenRadii == {NaN, Str(<<"a", "b", "c">>), Null, [k |-> "fin", v |-> 6]}

GivenBearings == {0, 90}

\* a receiver, two more points, a distance in thousands of kilometres, a
\* bearing and a radius
InitRadius ==
    /\ arg \in [receiver : {1, 2, 3}, pathStart : {1, 2, 3}, pathEnd : {1, 2, 3},
                distance : {[k |-> "fin", v |-> 1]},
                bearing : { Fin(Deg(b)) : b \in GivenBearings },
                radius : GivenRadii]
    /\ points = <<At(Corners[1]), At(Corners[2]), At(Corners[3])>>
    /\ polygon = <<1, 2, 3>>
    /\ fn = "none" /\ ret = Idle /\ back = Idle
    /\ lat = NaN /\ lon = NaN /\ thrown = "none"

Radiused(name, r) ==
    /\ fn = "none"
    /\ fn' = name /\ ret' = r
    /\ UNCHANGED <<lat, lon, thrown, arg, back, points, polygon>>

RadiusDistanceTo ==
    Radiused("distanceTo",
             DistanceGiven(FALSE, points[arg.receiver], points[arg.pathStart], arg.radius))

RadiusDestinationPoint ==
    Radiused("destinationPoint",
             DestinationGiven(points[arg.receiver], arg.distance, arg.bearing, arg.radius))

RadiusCrossTrackDistanceTo ==
    \E r \in CrossTrackGiven(points[arg.receiver], points[arg.pathStart],
                             points[arg.pathEnd], arg.radius) :
        Radiused("crossTrackDistanceTo", r)

RadiusAlongTrackDistanceTo ==
    \E r \in AlongTrackGiven(points[arg.receiver], points[arg.pathStart],
                             points[arg.pathEnd], arg.radius) :
        Radiused("alongTrackDistanceTo", r)

RadiusRhumbDistanceTo ==
    Radiused("rhumbDistanceTo",
             RhumbDistanceGiven(points[arg.receiver], points[arg.pathStart], arg.radius))

RadiusRhumbDestinationPoint ==
    \E r \in RhumbDestinationGiven(points[arg.receiver], arg.distance, arg.bearing,
                                   arg.radius) :
        Radiused("rhumbDestinationPoint", r)

RadiusAreaOf == Radiused("areaOf", AreaGiven(points, polygon, arg.radius))

NextRadius ==
    \/ RadiusDistanceTo
    \/ RadiusDestinationPoint
    \/ RadiusCrossTrackDistanceTo
    \/ RadiusAlongTrackDistanceTo
    \/ RadiusRhumbDistanceTo
    \/ RadiusRhumbDestinationPoint
    \/ RadiusAreaOf

SpecRadius == InitRadius /\ [][NextRadius]_vars

(***************************** claims on the radius *************************)

C26_ThrownWhereLookedAt ==
    isNaN(arg.radius) =>
        /\ fn \in {"distanceTo", "destinationPoint", "rhumbDestinationPoint"}
               => ret = Throw("TypeError")
        /\ (fn \in {"crossTrackDistanceTo", "alongTrackDistanceTo"}
                /\ ~equals(points[arg.receiver], points[arg.pathStart]))
               => ret = Throw("TypeError")

\* destinationPoint has thrown for the radius 'abc'
C26_Witness ==
    /\ fn = "destinationPoint"
    /\ arg.radius = Str(<<"a", "b", "c">>)
    /\ ret = Throw("TypeError")

(***************************** rhumb lines across the antimeridian **********)

\* the point half a turn of longitude from p, as the constructor stores it
Turned(p) == Point(p.lat, wrap180(Fin(p.lon.v + Deg(180))))

RhumbLats == {-90, 0, 60, 90}
RhumbLons == {-150, -30, 30, 150}
RhumbPoints == { Point(Fin(Deg(la)), Fin(Deg(lo))) : la \in RhumbLats, lo \in RhumbLons }

\* two instances; the radius is a number of thousands of kilometres
InitRhumb ==
    /\ points \in { <<p, q>> : p \in RhumbPoints, q \in RhumbPoints }
    /\ arg = [radius |-> [k |-> "fin", v |-> 6]]
    /\ polygon = <<>>
    /\ fn = "none" /\ ret = Idle /\ back = Idle
    /\ lat = NaN /\ lon = NaN /\ thrown = "none"

\* points[1].rhumbDistanceTo(points[2], radius), and the same call on the
\* two points turned half around the axis
RhumbDistanceOfPair ==
    /\ fn = "none"
    /\ fn' = "rhumbDistanceTo"
    /\ ret' = RhumbDistanceGiven(points[1], points[2], arg.radius)
    /\ back' = RhumbDistanceGiven(Turned(points[1]), Turned(points[2]), arg.radius)
    /\ UNCHANGED <<lat, lon, thrown, arg, points, polygon>>

\* points[1].rhumbBearingTo(points[2]), and the same call on the two
\* points turned half around the axis
RhumbBearingOfPair ==
    /\ fn = "none"
    /\ fn' = "rhumbBearingTo"
    /\ ret' = rhumbBearingTo(points[1], points[2])
    /\ back' = rhumbBearingTo(Turned(points[1]), Turned(points[2]))
    /\ UNCHANGED <<lat, lon, thrown, arg, points, polygon>>

NextRhumb == RhumbDistanceOfPair \/ RhumbBearingOfPair

SpecRhumb == InitRhumb /\ [][NextRhumb]_vars

(***************************** claims on rhumb lines ************************)

\* the longitudes of the two points are more than 180 degrees apart
AcrossAntimeridian == Abs(points[2].lon.v - points[1].lon.v) > Deg(180)

C27_ExceptBearingAtSouthPole ==
    (/\ fn \in {"rhumbDistanceTo", "rhumbBearingTo"}
     /\ ~Coincident(points[1], points[2])
     /\ ~(/\ fn = "rhumbBearingTo"
          /\ points[1].lat = Fin(Deg(-90)) /\ points[2].lat = Fin(Deg(-90)))) =>
        /\ IsFin(ret)
        /\ AcrossAntimeridian => ret = back

\* a rhumb distance across the antimeridian has been returned, shorter than
\* a quarter of the equator's length
C27_Witness ==
    /\ fn = "rhumbDistanceTo"
    /\ points = <<Point(Fin(0), Fin(Deg(150))), Point(Fin(0), Fin(Deg(-150)))>>
    /\ IsFin(ret) /\ ret = back
    /\ ret.v < arg.radius.v * toRadians(Deg(90))

(***************************** claims on a failing setter *******************)

\* C28: a call of the lat, latitude, lon, lng or longitude setter that
\* throws leaves the point as it was: lat and lon after the call are what
\* they were before it.
C28_FailedSetterKeepsPoint ==
    [][thrown' # "none" => lat' = lat /\ lon' = lon]_vars

\* What a throwing setter does leave: the other coordinate as it was, and
\* its own as it was or NaN.
C28_FailedSetterKeepsOther ==
    [][thrown' # "none" =>
           \/ lon' = lon /\ lat' \in {lat, NaN}
           \/ lat' = lat /\ lon' \in {lon, NaN}]_vars

(***************************** searchCranes *********************************)

\* a whole number of degrees or metres, as JavaScript holds it
Whole(n) == [k |-> "fin", v |-> n]

\* Number(s) for a string of digits with an optional '-': the strings that
\* come up below hold no decimal point and no exponent; every other one of
\* them is NaN, and the empty string is 0
WholeNumber(s) ==
    LET t == Trim(s)
        body == IF t # <<>> /\ Head(t) = "-" THEN Tail(t) ELSE t
    IN  IF t = <<>> THEN Whole(0)
        ELSE IF body # <<>> /\ \A i \in 1..Len(body) : body[i] \in Digits
        THEN Whole(IF Head(t) = "-" THEN -DigitsValue(body) ELSE DigitsValue(body))
        ELSE NaN

\* String(x) for a whole number or NaN, and for a string
WholeString(x) ==
    IF x.k = "str" THEN x.s
    ELSE IF x.k = "nan" THEN <<"N", "a", "N">>
    ELSE IF x.v < 0 THEN <<"-">> \o IntToDigits(-x.v)
    ELSE IntToDigits(x.v)

\* a + b: the sum of two numbers, and the concatenation of the strings of
\* a and b where either is a string
JsPlus(a, b) ==
    IF a.k = "str" \/ b.k = "str" THEN Str(WholeString(a) \o WholeString(b))
    ELSE IF IsFin(a) /\ IsFin(b) THEN Whole(a.v + b.v)
    ELSE NaN

\* a % n: a string is converted by Number
JsMod(a, n) ==
    LET x == IF a.k = "str" THEN WholeNumber(a.s) ELSE a
    IN  IF IsFin(x) THEN Whole(JsRem(x.v, n)) ELSE NaN

\* the bearing as summed in arithmetic
SummedBearing(DMAG, MagDec) ==
    LET degMag == WholeNumber(DMAG)
        dec == IF MagDec.k = "str" THEN WholeNumber(MagDec.s) ELSE MagDec
    IN  IF IsFin(degMag) /\ IsFin(dec) THEN Whole(JsRem(degMag.v + dec.v + 360, 360))
        ELSE NaN

\* degMag = Number(c["DMAG"]); degTrue = (degMag + MagDec + 360) % 360
TrueBearing(DMAG, MagDec) ==
    LET degMag == WholeNumber(DMAG)
    IN  JsMod(JsPlus(JsPlus(degMag, MagDec), Whole(360)), 360)

\* distStr.replace(/[^\d.-]/g, '')
KeepNumeric(s) == SelectSeq(s, LAMBDA c : c \in Digits \cup {".", "-"})

\* distM: nautical miles times 1852 where the last but one character is 'N',
\* metres otherwise
MetresOf(distStr) ==
    LET n == WholeNumber(KeepNumeric(distStr))
    IN  IF Len(distStr) >= 2 /\ distStr[Len(distStr) - 1] = "N"
        THEN (IF IsFin(n) THEN Whole(n.v * 1852) ELSE NaN)
        ELSE n

\* getDestination(disance, trueBearing) with the globals latStr and lonStr:
\* the point at the distance on the bearing from the reference point, by
\* the default radius of 6371e3 metres; a TypeError where the constructor
\* or destinationPoint gets NaN
getDestination(disance, trueBearing, latStr, lonStr) ==
    LET p1Destination(lat1, lon1, brng, dist) ==
            IF lat1.k = "throw" THEN lat1
            ELSE IF lon1.k = "throw" THEN lon1
            ELSE IF brng.k = "throw" THEN brng
            ELSE IF isNaN(lat1) \/ isNaN(lon1) THEN Throw("TypeError")
            ELSE DestinationGiven(Point(wrap90(ToNumber(lat1)), wrap180(ToNumber(lon1))),
                                  dist, brng, Whole(6371 * 1000))
    IN  Only({ p1Destination(lat1, lon1, brng, dist) :
                   lat1 \in {parse(Str(latStr))},
                   lon1 \in {parse(Str(lonStr))},
                   brng \in {parse(Str(trueBearing))},
                   dist \in {disance} })

\* one turn of the loop of searchCranes for the crane c, with the hours
\* box empty (every crane is listed): the entry pushed to cranes, or what
\* getDestination throws
CraneEntry(c, MagDec, latStr, lonStr) ==
    LET degTrue == TrueBearing(c.DMAG, MagDec)
        distM == MetresOf(c.dist)
        latlong == getDestination(distM, WholeString(degTrue), latStr, lonStr)
    IN  IF latlong = Throw("TypeError") THEN latlong
        ELSE [DMAG |-> c.DMAG, TN |-> degTrue, distM |-> distM, latlong |-> latlong]

\* what the declination field holds
DeclinationFields == { <<"8">>, <<"0">>, <<"1", "2">>, <<"-", "3">>, <<>> }

\* the bearings and distances of the cranes that parseCranes hands over
CraneBearings == { <<"0">>, <<"0", "9", "0">>, <<"3", "5", "0">>, <<"3", "5", "5">> }
CraneDistances == { <<"5", "0", "0", "N", "M">>, <<"9", "0", "0", "0", "0", "0", "M">> }

\* the reference position that the page starts with, and one on the equator
ReferenceFields ==
    { [latitude |-> <<"3", "4", " ", "4", "2", " ", "0", "9", "S">>,
       longitude |-> <<"1", "3", "8", " ", "3", "7", " ", "1", "5", "E">>],
      [latitude |-> <<"0">>, longitude |-> <<"3", "0">>] }

\* arg is the page: the fields #magDec, #latitude and #longitude, and the
\* crane read from the text area; back holds the globals MagDec, latStr and
\* lonStr as the script sets them when loaded
InitCranes ==
    /\ arg \in [magDec : DeclinationFields, position : ReferenceFields,
                crane : [DMAG : CraneBearings, dist : CraneDistances]]
    /\ back = [MagDec |-> Whole(8),
               latStr |-> <<"3", "4", " ", "4", "2", " ", "0", "9", "S">>,
               lonStr |-> <<"1", "3", "8", " ", "3", "7", " ", "1", "5", "E">>]
    /\ points = <<>> /\ polygon = <<>>
    /\ fn = "none" /\ ret = Idle
    /\ lat = NaN /\ lon = NaN /\ thrown = "none"

\* searchCranes(): the globals are set from the fields, then the crane is
\* projected
SearchCranes ==
    /\ fn = "none"
    /\ fn' = "searchCranes"
    /\ back' = [MagDec |-> Str(arg.magDec),
                latStr |-> arg.position.latitude, lonStr |-> arg.position.longitude]
    /\ ret' = CraneEntry(arg.crane, back'.MagDec, back'.latStr, back'.lonStr)
    /\ UNCHANGED <<lat, lon, thrown, arg, points, polygon>>

NextCranes == SearchCranes

SpecCranes == InitCranes /\ [][NextCranes]_vars

(***************************** claims on searchCranes ***********************)

\* the reference point of the page
ReferencePoint ==
    Point(wrap90(ToNumber(parse(Str(arg.position.latitude)))),
          wrap180(ToNumber(parse(Str(arg.position.longitude)))))

\* C30: the true bearing of a crane is its magnetic bearing plus the
\* declination, summed as numbers and brought into [0,360), and the
\* crane's place is destinationPoint(distance in metres, true bearing) from
\* the reference point.
C30_TrueBearingIsSum ==
    fn = "searchCranes" =>
        LET degTrue == SummedBearing(arg.crane.DMAG, Str(arg.magDec))
        IN  /\ ret # Throw("TypeError")
            /\ ret.TN = degTrue
            /\ ret.latlong = DestinationGiven(ReferencePoint, MetresOf(arg.crane.dist),
                                              Fin(Deg(degTrue.v)), Whole(6371 * 1000))

\* A crane that is listed is placed at destinationPoint(distance in metres,
\* TN) from the reference point for the TN it is listed with, a whole
\* number in [0,360).
C30_PlacedOnListedBearing ==
    fn = "searchCranes" /\ ret # Throw("TypeError") =>
        /\ IsFin(ret.TN) /\ 0 <= ret.TN.v /\ ret.TN.v < 360
        /\ ret.distM = MetresOf(arg.crane.dist)
        /\ ret.latlong = DestinationGiven(ReferencePoint, ret.distM,
                                          Fin(Deg(ret.TN.v)), Whole(6371 * 1000))

(***************************** Dms.toLat and Dms.toLon **********************)

\* the values formatted, in degrees: inside the ranges, on their ends, and
\* outside them on either side
HemisphereDegs == {-540, -359, -270, -181, -91, -45, -1, 0, 1, 45, 89, 91, 179, 181, 270, 359}

\* each with and without a fraction of a degree
HemisphereArgs ==
    [deg : { Fin(Deg(n) + t) : n \in HemisphereDegs, t \in {0, TicksPerDeg \div 8} },
     format : {"d", "dm", "dms"}]

InitHemisphere ==
    /\ arg \in HemisphereArgs
    /\ fn = "none" /\ ret = Idle /\ back = Idle
    /\ lat = NaN /\ lon = NaN /\ thrown = "none"
    /\ points = <<>> /\ polygon = <<>>

\* Dms.toLat(deg, format)
CallToLat ==
    /\ fn = "none"
    /\ fn' = "toLat" /\ ret' = toLat(arg.deg, arg.format, Undefined)
    /\ UNCHANGED <<lat, lon, thrown, arg, back, points, polygon>>

\* Dms.toLon(deg, format)
CallToLon ==
    /\ fn = "none"
    /\ fn' = "toLon" /\ ret' = toLon(arg.deg, arg.format, Undefined)
    /\ UNCHANGED <<lat, lon, thrown, arg, back, points, polygon>>

\* then Dms.parse of the string returned
CallParseHemisphere ==
    /\ fn \in {"toLat", "toLon"}
    /\ fn' = IF fn = "toLat" THEN "parse(toLat)" ELSE "parse(toLon)"
    /\ back' = parse(ret)
    /\ UNCHANGED <<lat, lon, thrown, arg, ret, points, polygon>>

NextHemisphere == CallToLat \/ CallToLon \/ CallParseHemisphere

SpecHemisphere == InitHemisphere /\ [][NextHemisphere]_vars

(***************************** claims on the hemisphere letter **************)

\* the letter at the end of a formatted string
Letter(str) == str.s[Len(str.s)]

\* back is within half a unit of the last digit of the value x
NearTo(x) ==
    /\ IsFin(back)
    /\ 2 * Abs(back.v - x.v) <= LastDigitUnit(arg.format, DefaultPlaces(arg.format))

\* C29: for every finite value, in or out of range, Dms.toLat ends in 'S'
\* exactly when wrap90(value) is negative and Dms.toLon in 'W' exactly when
\* wrap180(value) is negative, so that parsing the string gives wrap90(value),
\* wrap180(value) to the last digit.
C29_LetterOfWrapped ==
    /\ fn \in {"toLat", "parse(toLat)"} =>
           (Letter(ret) = "S" <=> wrap90(arg.deg).v < 0)
    /\ fn \in {"toLon", "parse(toLon)"} =>
           (Letter(ret) = "W" <=> wrap180(arg.deg).v < 0)
    /\ fn = "parse(toLat)" => NearTo(wrap90(arg.deg))
    /\ fn = "parse(toLon)" => NearTo(wrap180(arg.deg))

\* The same holds of the values inside the range: latitudes in [-90,90] and
\* longitudes in [-180,180].
C29_LetterInRange ==
    /\ (fn \in {"toLat", "parse(toLat)"} /\ Abs(arg.deg.v) <= Deg(90)) =>
           (Letter(ret) = "S" <=> wrap90(arg.deg).v < 0)
    /\ (fn \in {"toLon", "parse(toLon)"} /\ Abs(arg.deg.v) <= Deg(180)) =>
           (Letter(ret) = "W" <=> wrap180(arg.deg).v < 0)
    /\ (fn = "parse(toLat)" /\ Abs(arg.deg.v) <= Deg(90)) => NearTo(wrap90(arg.deg))
    /\ (fn = "parse(toLon)" /\ Abs(arg.deg.v) <= Deg(180)) => NearTo(wrap180(arg.deg))

====
